---- MODULE Spec2Model ----
(***************************************************************************)
(* Hybrid vector-graph knowledge engine (knowledge-graph-cli).             *)
(*                                                                         *)
(* State: the LanceDB "units" table, the NetworkX DiGraph, the relation    *)
(* list of the PersistenceManager (in memory and in relations.json).       *)
(* Operations: KnowledgeGraph.add_proposition, connect_concepts,           *)
(* delete_unit, semantic_search, find_path, get_conflicts and the process  *)
(* restart (KnowledgeGraph.__init__ on an existing data directory).        *)
(*                                                                         *)
(* Abstractions: an embedding is represented by the text it embeds, and    *)
(* the cosine similarity of two texts by the table Similarity (percent).   *)
(* created_at, the vector column and the content label of a graph node     *)
(* are not modelled.  Where the vector index leaves an order open (rows    *)
(* at equal distance, several rows with one id) and where networkx may     *)
(* return any one of several shortest paths, the model takes every         *)
(* outcome.                                                                *)
(***************************************************************************)
EXTENDS Integers, Sequences, FiniteSets, TLC

\* ---------------------------------------------------------------- bounds
MaxUnits == 2       \* Spec: rows the units table may hold
MaxRels == 2        \* Spec: relations the relation store may hold
MaxGen == 2         \* Spec: ids the id generator may hand out
SearchUnits == 3    \* SpecSearch: rows of the units table
SearchLimit == 2    \* SpecSearch: largest limit asked for
PathUnits == 4      \* SpecPath: rows of the units table
PathRels == 2       \* SpecPath: relations in the store
ConflictUnits == 2  \* SpecConflict: rows of the units table
IngestUnits == 2    \* SpecIngest: rows of the units table
ConflictRels == 1   \* SpecConflict: relations in the store
StoreUnits == 2     \* SpecStore: rows of the units table
StoreRels == 2      \* SpecStore: relations in the store
DeleteUnits == 2    \* SpecDelete: rows of the units table
DeleteRels == 2     \* SpecDelete: relations in the store
ToolUnits == 2      \* SpecTools: rows of the units table
ToolRels == 1       \* SpecTools: relations in the store
IdemUnits == 2      \* SpecIdem: rows of the units table
IdemRels == 1       \* SpecIdem: relations in the store
LineageUnits == 4   \* SpecLineage: rows of the units table
LineageRels == 2    \* SpecLineage: relations in the store
ContraUnits == 2    \* SpecContra: rows of the units table
ContraRels == 3     \* SpecContra: relations in the store
LatestUnits == 4    \* SpecLatest: rows of the units table
LatestRels == 2     \* SpecLatest: relations in the store
QueryUnits == 2     \* SpecQuery: rows of the units table
QueryRels == 1      \* SpecQuery: relations in the store
QueryLimit == 2     \* SpecQuery: largest limit asked for
EmbedUnits == 2     \* SpecEmbed: rows of the units table
EmbedRels == 1      \* SpecEmbed: relations in the store
RetryUnits == 2     \* SpecRetry: rows of the units table
RetryRels == 2      \* SpecRetry: relations in the store
ReplayUnits == 2    \* SpecReplay: rows of the units table
ReplayGen == 3      \* SpecReplay: ids the id generator may hand out
RaceUnits == 2      \* SpecRace, SpecSnapshot: rows of the units table
RaceRels == 2       \* SpecRace, SpecSnapshot: relations in the store

\* ---------------------------------------------------------------- values
None == "None"                       \* Python None / an absent result
NoUnit == [absent |-> TRUE]          \* get_unit's None

Texts == {"A", "B"}                  \* unit contents
Queries == {"A", "B", "Q"}           \* query / concept / claim texts
Sources == {None, "", "doi"}         \* source_doi arguments
Confidences == {5, 10}               \* confidence arguments, in tenths
RelationTypes == {"supports", "refutes", "extends", "implies", "contradicts"}
Reasonings == {"r"}

UuidPool == <<"u1", "u2", "u3", "u4", "u5", "u6">>
GeneratedIds == {UuidPool[i] : i \in 1..Len(UuidPool)}
CallerIds == {"c1"}                  \* an id only a caller would supply

\* Cosine similarity (1 - distance) of a query text and a content, percent.
Similarity(q, c) ==
    IF q = c THEN 100
    ELSE IF q \in {"A", "B"} /\ c \in {"A", "B"} THEN 85
    ELSE IF q = "Q" /\ c = "A" THEN 50
    ELSE 40

RelevanceFloorExclusive == 50 + 1     \* score <= 0.5 would be skipped
RelevanceFloor == 50                 \* score < 0.5 is skipped
NearDuplicateInclusive == 85 - 1     \* score >= 0.85 would be flagged
NearDuplicate == 85                  \* score > 0.85 is flagged
PathCandidates == 3                  \* find_path: limit=3
ConflictCandidates == 10             \* get_conflicts: limit=10

VARIABLES
    table,            \* LanceDB table "units": sequence of rows, insertion order
    graph_nodes,      \* nx.DiGraph nodes (ids)
    graph_edges,      \* nx.DiGraph edges: <<source, target>> -> [type, reasoning]
    relations,        \* PersistenceManager._relations (creation order)
    relations_file,   \* relations.json on disk
    next_uuid,        \* how many ids the generator has handed out
    live,             \* history: <<id, content>> ingested and not deleted since
    last,             \* the last engine call and what it returned
    idempotency_cache,  \* PersistenceManager._idempotency_cache: key -> cached result
    idempotency_file,   \* idempotency.json on disk
    result,           \* the last tool call of the server and the result its caller got
    pending           \* engine calls of other threads that have begun and not returned

vars ==
    <<table, graph_nodes, graph_edges, relations, relations_file, next_uuid, live, last,
      idempotency_cache, idempotency_file, result, pending>>

\* ---------------------------------------------------------------- helpers
Range(s) == {s[i] : i \in DOMAIN s}

Min(S) == CHOOSE x \in S : \A y \in S : x <= y

SelectIdx(s, Keep(_)) ==
    LET F[i \in 0..Len(s)] ==
            IF i = 0 THEN <<>>
            ELSE IF Keep(s[i]) THEN Append(F[i - 1], s[i]) ELSE F[i - 1]
    IN F[Len(s)]

\* All sequences of k distinct elements of S.
RECURSIVE Arrangements(_, _)
Arrangements(S, k) ==
    IF k = 0 THEN {<<>>}
    ELSE UNION {{<<x>> \o p : p \in Arrangements(S \ {x}, k - 1)} : x \in S}

\* ---------------------------------------------------------------- units
\* AtomicUnit as the engine rebuilds it from a row (get_unit, semantic_search).
UnitOfRow(row) ==
    [id |-> row.id,
     content |-> row.content,
     source_doi |-> IF row.source_doi = "" THEN None ELSE row.source_doi,
     confidence |-> row.confidence]

TableIds == {table[i].id : i \in DOMAIN table}

\* table.search().where("id = ...").limit(1): which of several rows with one id
\* comes first is the index's choice; a pick fixes it for one call.
Picks ==
    {p \in [TableIds -> DOMAIN table] : \A id \in TableIds : table[p[id]].id = id}

get_unit(pick, unit_id) ==
    IF unit_id \in TableIds THEN UnitOfRow(table[pick[unit_id]]) ELSE NoUnit

EmptyMap == [x \in {} |-> None]

Idle == [pc |-> "idle"]              \* no call of the operation is in progress
NoPending == [connect_concepts |-> Idle, delete_unit |-> Idle, find_path |-> Idle]

NoResult == [tool |-> "none", args |-> <<>>, outcome |-> "none", value |-> [status |-> "none"]]        \* no tool has been called

Init ==
    /\ table = <<>>
    /\ graph_nodes = {}
    /\ graph_edges = EmptyMap
    /\ relations = <<>>
    /\ relations_file = <<>>
    /\ next_uuid = 0
    /\ live = {}
    /\ last = [op |-> "init"]
    /\ idempotency_cache = EmptyMap
    /\ idempotency_file = EmptyMap
    /\ result = NoResult
    /\ pending = NoPending

\* ---------------------------------------------------------------- graph (networkx.DiGraph)
Nodes == graph_nodes
Edges == DOMAIN graph_edges

\* DiGraph.add_node(n, ...): creates the node if the graph does not hold it.
add_node(nodes, n) == nodes \cup {n}

\* The nodes add_edge(u, v) leaves: endpoints the graph does not hold are created.
add_edge_nodes(nodes, u, v) == nodes \cup {u, v}

\* DiGraph.add_edge(u, v, type=, reasoning=): creates the edge or overwrites its attributes.
add_edge(edges, u, v, type, reasoning) ==
    [e \in DOMAIN edges \cup {<<u, v>>} |->
        IF e = <<u, v>> THEN [type |-> type, reasoning |-> reasoning] ELSE edges[e]]

\* DiGraph.remove_node(n): the node and every edge incident to it.
remove_node_nodes(nodes, n) == nodes \ {n}
remove_node_edges_outgoing_only(edges, n) ==
    [e \in {d \in DOMAIN edges : d[1] # n} |-> edges[e]]

remove_node_edges(edges, n) ==
    [e \in {d \in DOMAIN edges : d[1] # n /\ d[2] # n} |-> edges[e]]

\* ---------------------------------------------------------------- persistence
Touches(r, unit_id) == r.source_id = unit_id \/ r.target_id = unit_id

get_relations_for_unit(unit_id) ==
    LET Keep(r) == Touches(r, unit_id) IN SelectIdx(relations, Keep)

\* KnowledgeGraph.get_unit_connections
get_unit_connections(unit_id) == get_relations_for_unit(unit_id)

add_relation_unless_stored(rels, relation) ==
    IF relation \in Range(rels) THEN rels ELSE Append(rels, relation)

\* PersistenceManager.add_relation: the list after the append.
add_relation(rels, relation) == Append(rels, relation)

relations_without_outgoing(unit_id) ==
    LET Keep(r) == r.source_id # unit_id
    IN SelectIdx(relations, Keep)

\* delete_relations_for_unit: the list it keeps.
relations_without(unit_id) ==
    LET Keep(r) == r.source_id # unit_id /\ r.target_id # unit_id
    IN SelectIdx(relations, Keep)

\* The load keeping the attributes of the first relation stored for an edge.
RECURSIVE load_edges_first_stored(_, _)
load_edges_first_stored(rels, edges) ==
    IF rels = <<>> THEN edges
    ELSE load_edges_first_stored(
             Tail(rels),
             IF <<Head(rels).source_id, Head(rels).target_id>> \in DOMAIN edges
             THEN edges
             ELSE add_edge(edges, Head(rels).source_id, Head(rels).target_id,
                           Head(rels).type, Head(rels).reasoning))

\* _load_graph_from_persistence: add_edge for every relation, in stored order.
load_edges_keeping_graph(rels, edges) == graph_edges

RECURSIVE load_edges(_, _)
load_edges(rels, edges) ==
    IF rels = <<>> THEN edges
    ELSE load_edges(Tail(rels),
                    add_edge(edges, Head(rels).source_id, Head(rels).target_id,
                             Head(rels).type, Head(rels).reasoning))

RECURSIVE load_nodes(_, _)
load_nodes(rels, nodes) ==
    IF rels = <<>> THEN nodes
    ELSE load_nodes(Tail(rels),
                    add_edge_nodes(nodes, Head(rels).source_id, Head(rels).target_id))

\* ---------------------------------------------------------------- engine: writes
Ok(op, args, value) == [op |-> op, args |-> args, status |-> "ok", value |-> value]
Raised(op, args, error, message) ==
    [op |-> op, args |-> args, status |-> "raised", error |-> error, message |-> message]

\* The row add_proposition inserts.
RowOf(unit) ==
    [id |-> unit.id,
     content |-> unit.content,
     source_doi |-> IF unit.source_doi = None THEN "" ELSE unit.source_doi,
     confidence |-> unit.confidence]

add_proposition(content, source_doi, confidence, unit_id) ==
    LET generated == UuidPool[next_uuid + 1]
        unit == [id |-> IF unit_id \notin {None, ""} THEN unit_id ELSE generated,
                 content |-> content,
                 source_doi |-> source_doi,
                 confidence |-> confidence]
    IN /\ table' = Append(table, RowOf(unit))
       /\ graph_nodes' = add_node(graph_nodes, unit.id)
       /\ next_uuid' = IF unit_id \notin {None, ""} THEN next_uuid ELSE next_uuid + 1
       /\ live' = live \cup {<<unit.id, unit.content>>}
       /\ last' = Ok("add_proposition", <<content, source_doi, confidence, unit_id>>, unit)
       /\ UNCHANGED <<graph_edges, relations, relations_file>>

\* connect_concepts, "Verify both units exist": the ValueError it raises, <<>> if none.
verify_units_source_only(pick, source_id, target_id) ==
    IF get_unit(pick, source_id) = NoUnit
    THEN <<"Source unit not found", source_id>>
    ELSE <<>>

\* "Verify both units exist" without the test of the source.
verify_units_target_only(pick, source_id, target_id) ==
    IF get_unit(pick, target_id) = NoUnit
    THEN <<"Target unit not found", target_id>>
    ELSE <<>>

verify_units(pick, source_id, target_id) ==
    IF get_unit(pick, source_id) = NoUnit
    THEN <<"Source unit not found", source_id>>
    ELSE IF get_unit(pick, target_id) = NoUnit
    THEN <<"Target unit not found", target_id>>
    ELSE <<>>

connect_concepts(source_id, target_id, relation_type, reasoning) ==
    LET args == <<source_id, target_id, relation_type, reasoning>>
        relation == [source_id |-> source_id, target_id |-> target_id,
                     type |-> relation_type, reasoning |-> reasoning]
    IN \E pick \in Picks :
        IF verify_units(pick, source_id, target_id) # <<>>
        THEN /\ last' = Raised("connect_concepts", args, "ValueError",
                               verify_units(pick, source_id, target_id))
             /\ UNCHANGED <<table, graph_nodes, graph_edges, relations, relations_file,
                            next_uuid, live>>
        ELSE /\ graph_nodes' = add_edge_nodes(graph_nodes, source_id, target_id)
             /\ graph_edges' = add_edge(graph_edges, source_id, target_id,
                                        relation_type, reasoning)
             /\ relations' = add_relation(relations, relation)
             /\ relations_file' = relations'
             /\ last' = Ok("connect_concepts", args, relation)
             /\ UNCHANGED <<table, next_uuid, live>>

\* delete_unit without the "if not unit: raise ValueError" test.
delete_unit_absent_ok(unit_id) ==
    \E pick \in Picks :
        LET unit == get_unit(pick, unit_id)
            connections == get_relations_for_unit(unit_id)
            kept == relations_without(unit_id)
            deleted_relations == Len(relations) - Len(kept)
            KeepRow(row) == row.id # unit_id
        IN /\ table' = SelectIdx(table, KeepRow)
           /\ graph_nodes' = remove_node_nodes(graph_nodes, unit_id)
           /\ graph_edges' = remove_node_edges(graph_edges, unit_id)
           /\ relations' = kept
           /\ relations_file' = IF deleted_relations > 0 THEN kept ELSE relations_file
           /\ live' = {u \in live : u[1] # unit_id}
           /\ last' = Ok("delete_unit", <<unit_id>>,
                         [deleted_unit_id |-> unit_id,
                          deleted_content |-> IF unit = NoUnit THEN None ELSE unit.content,
                          deleted_source |-> IF unit = NoUnit THEN None ELSE unit.source_doi,
                          deleted_relations_count |-> deleted_relations,
                          connections_removed |-> Len(connections)])
           /\ UNCHANGED next_uuid

\* delete_unit counting the relations that leave the unit only.
delete_unit_counting_outgoing(unit_id) ==
    \E pick \in Picks :
        LET unit == get_unit(pick, unit_id)
            connections == get_relations_for_unit(unit_id)
            kept == relations_without(unit_id)
            KeepRow(row) == row.id # unit_id
        IN IF unit = NoUnit
           THEN /\ last' = Raised("delete_unit", <<unit_id>>, "ValueError",
                                  <<"Unit not found", unit_id>>)
                /\ UNCHANGED <<table, graph_nodes, graph_edges, relations, relations_file,
                               next_uuid, live>>
           ELSE /\ table' = SelectIdx(table, KeepRow)
                /\ graph_nodes' = remove_node_nodes(graph_nodes, unit_id)
                /\ graph_edges' = remove_node_edges(graph_edges, unit_id)
                /\ relations' = kept
                /\ relations_file' = kept
                /\ live' = {u \in live : u[1] # unit_id}
                /\ last' = Ok("delete_unit", <<unit_id>>,
                              [deleted_unit_id |-> unit_id,
                               deleted_content |-> unit.content,
                               deleted_source |-> unit.source_doi,
                               deleted_relations_count |->
                                   Cardinality({i \in DOMAIN relations :
                                                   relations[i].source_id = unit_id}),
                               connections_removed |-> Len(connections)])
                /\ UNCHANGED next_uuid

delete_unit(unit_id) ==
    \E pick \in Picks :
        LET unit == get_unit(pick, unit_id)
            connections == get_relations_for_unit(unit_id)
            kept == relations_without(unit_id)
            deleted_relations == Len(relations) - Len(kept)
            KeepRow(row) == row.id # unit_id
        IN IF unit = NoUnit
           THEN /\ last' = Raised("delete_unit", <<unit_id>>, "ValueError",
                                  <<"Unit not found", unit_id>>)
                /\ UNCHANGED <<table, graph_nodes, graph_edges, relations, relations_file,
                               next_uuid, live>>
           ELSE /\ table' = SelectIdx(table, KeepRow)
                /\ graph_nodes' = IF unit_id \in Nodes
                                  THEN remove_node_nodes(graph_nodes, unit_id)
                                  ELSE graph_nodes
                /\ graph_edges' = IF unit_id \in Nodes
                                  THEN remove_node_edges(graph_edges, unit_id)
                                  ELSE graph_edges
                /\ relations' = kept
                /\ relations_file' = IF deleted_relations > 0 THEN kept ELSE relations_file
                /\ live' = {u \in live : u[1] # unit_id}
                /\ last' = Ok("delete_unit", <<unit_id>>,
                              [deleted_unit_id |-> unit_id,
                               deleted_content |-> unit.content,
                               deleted_source |-> unit.source_doi,
                               deleted_relations_count |-> deleted_relations,
                               connections_removed |-> Len(connections)])
                /\ UNCHANGED next_uuid

\* A new process on the same data directory: KnowledgeGraph.__init__ with
\* PersistenceManager._load.  The caller keeps the result it got before.
restart ==
    /\ relations' = relations_file
    /\ idempotency_cache' = idempotency_file
    /\ graph_nodes' = load_nodes(relations_file, {})
    /\ graph_edges' = load_edges(relations_file, EmptyMap)
    /\ last' = [op |-> "restart"]
    /\ UNCHANGED <<table, relations_file, next_uuid, live, idempotency_file, result, pending>>

\* ---------------------------------------------------------------- engine: reads
SearchRankingsUncut(query, limit) ==
    LET score(i) == Similarity(query, table[i].content)
    IN {p \in Arrangements(DOMAIN table, Len(table)) :
            \A i \in 1..(Len(table) - 1) : score(p[i]) >= score(p[i + 1])}

\* table.search(vector).metric("cosine").limit(limit): the rows in ascending
\* distance, cut at limit; rows at equal distance come in either order.
SearchRankings(query, limit) ==
    LET k == IF limit < Len(table) THEN limit ELSE Len(table)
        score(i) == Similarity(query, table[i].content)
    IN {p \in Arrangements(DOMAIN table, k) :
            /\ \A i \in 1..(k - 1) : score(p[i]) >= score(p[i + 1])
            /\ \A j \in DOMAIN table \ Range(p) : \A i \in 1..k : score(p[i]) >= score(j)}

\* semantic_search: every result list the index may return, as (unit, score) pairs.
semantic_search(query, limit) ==
    {[i \in 1..Len(p) |->
        [unit |-> UnitOfRow(table[p[i]]),
         score |-> Similarity(query, table[p[i]].content)]] :
     p \in SearchRankings(query, limit)}

\* Adjacency in the directed graph, without to_undirected().
Adjacent_directed(u, v) == <<u, v>> \in Edges

\* graph.to_undirected(): u and v are adjacent when an edge joins them either way.
Adjacent(u, v) == <<u, v>> \in Edges \/ <<v, u>> \in Edges

SimplePaths(s, t, n) ==
    {p \in Arrangements(Nodes, n) :
        /\ p[1] = s
        /\ p[n] = t
        /\ \A i \in 1..(n - 1) : Adjacent(p[i], p[i + 1])}

\* Breadth-first search of the undirected view from a frontier at n nodes' distance:
\* the node count of a shortest path to t, 0 when t is not reached.
RECURSIVE search_from(_, _, _, _)
search_from(frontier, seen, t, n) ==
    IF t \in frontier THEN n
    ELSE LET next == {v \in Nodes \ seen : \E u \in frontier : Adjacent(u, v)}
         IN IF next = {} THEN 0 ELSE search_from(next, seen \cup next, t, n + 1)

\* Fewest nodes of a path from s to t (both in the graph); 0 when there is none.
path_length(s, t) == search_from({s}, {s}, t, 1)

\* nx.shortest_path on the undirected view, both endpoints in the graph: every
\* path with the fewest nodes (networkx returns one of them); {} is NetworkXNoPath.
shortest_path(s, t) ==
    IF path_length(s, t) = 0 THEN {} ELSE SimplePaths(s, t, path_length(s, t))

NoPathYet == [path |-> <<>>]
NodeNotFound == [raised |-> "NodeNotFound"]

\* The loop with "<=" for "<": the last pair of least length wins.
scan_pairs_last_least(pairs, lengths) ==
    LET tried == {k \in DOMAIN pairs : pairs[k][1] # pairs[k][2]}
        outside == {k \in tried : pairs[k][1] \notin Nodes \/ pairs[k][2] \notin Nodes}
        found == {x \in tried \X (1..Cardinality(Nodes)) :
                    <<pairs[x[1]][1], pairs[x[1]][2], x[2]>> \in lengths}
        best_path_length == Min({x[2] : x \in found})
        winner == CHOOSE k \in {y[1] : y \in {z \in found : z[2] = best_path_length}} :
                      \A y \in found : y[2] = best_path_length => y[1] <= k
    IN IF outside # {} THEN {NodeNotFound}
       ELSE IF found = {} THEN {NoPathYet}
       ELSE {[path |-> p] : p \in shortest_path(pairs[winner][1], pairs[winner][2])}

scan_pairs_first_found(pairs, lengths) ==
    LET tried == {k \in DOMAIN pairs : pairs[k][1] # pairs[k][2]}
        outside == {k \in tried : pairs[k][1] \notin Nodes \/ pairs[k][2] \notin Nodes}
        found == {x \in tried \X (1..Cardinality(Nodes)) :
                    <<pairs[x[1]][1], pairs[x[1]][2], x[2]>> \in lengths}
        winner == Min({x[1] : x \in found})
    IN IF outside # {} THEN {NodeNotFound}
       ELSE IF found = {} THEN {NoPathYet}
       ELSE {[path |-> p] : p \in shortest_path(pairs[winner][1], pairs[winner][2])}

\* The double loop of find_path over the candidate pairs (start-major order):
\* pairs of one id are skipped, a pair with an endpoint outside the graph ends
\* the call with NodeNotFound, and best_path is replaced only by a strictly
\* shorter path, so the first pair in order with the least length wins.
\* lengths holds <<s, t, path_length(s, t)>> for the nodes of the graph.
scan_pairs(pairs, lengths) ==
    LET tried == {k \in DOMAIN pairs : pairs[k][1] # pairs[k][2]}
        outside == {k \in tried : pairs[k][1] \notin Nodes \/ pairs[k][2] \notin Nodes}
        found == {x \in tried \X (1..Cardinality(Nodes)) :
                    <<pairs[x[1]][1], pairs[x[1]][2], x[2]>> \in lengths}
        best_path_length == Min({x[2] : x \in found})
        winner == Min({x[1] : x \in {y \in found : y[2] = best_path_length}})
    IN IF outside # {} THEN {NodeNotFound}
       ELSE IF found = {} THEN {NoPathYet}
       ELSE {[path |-> p] : p \in shortest_path(pairs[winner][1], pairs[winner][2])}

CandidatePairs(start_results, end_results) ==
    LET n == Len(end_results)
    IN [k \in 1..(Len(start_results) * n) |->
          <<start_results[((k - 1) \div n) + 1].unit.id,
            end_results[((k - 1) % n) + 1].unit.id>>]

NoRelation == [absent |-> TRUE]

relation_to_next_forward_only(node_id, next_id) ==
    IF <<node_id, next_id>> \in Edges
    THEN [source_id |-> node_id, target_id |-> next_id,
          type |-> graph_edges[<<node_id, next_id>>].type,
          reasoning |-> graph_edges[<<node_id, next_id>>].reasoning]
    ELSE NoRelation

\* The relation written in the direction the path is walked.
relation_to_next_as_traversed(node_id, next_id) ==
    IF <<node_id, next_id>> \in Edges
    THEN [source_id |-> node_id, target_id |-> next_id,
          type |-> graph_edges[<<node_id, next_id>>].type,
          reasoning |-> graph_edges[<<node_id, next_id>>].reasoning]
    ELSE IF <<next_id, node_id>> \in Edges
    THEN [source_id |-> node_id, target_id |-> next_id,
          type |-> graph_edges[<<next_id, node_id>>].type,
          reasoning |-> graph_edges[<<next_id, node_id>>].reasoning]
    ELSE NoRelation

\* The relation find_path reports between a path node and the next one.
relation_to_next(node_id, next_id) ==
    IF <<node_id, next_id>> \in Edges
    THEN [source_id |-> node_id, target_id |-> next_id,
          type |-> graph_edges[<<node_id, next_id>>].type,
          reasoning |-> graph_edges[<<node_id, next_id>>].reasoning]
    ELSE IF <<next_id, node_id>> \in Edges
    THEN [source_id |-> next_id, target_id |-> node_id,
          type |-> graph_edges[<<next_id, node_id>>].type,
          reasoning |-> graph_edges[<<next_id, node_id>>].reasoning]
    ELSE NoRelation

\* The steps without the "i < len(best_path) - 1" test: the last step gets the
\* relation to the node before it.
lineage_steps_all_related(path, pick) ==
    LET F[i \in 0..Len(path)] ==
            IF i = 0 THEN <<>>
            ELSE IF get_unit(pick, path[i]) = NoUnit THEN F[i - 1]
            ELSE Append(F[i - 1],
                        [unit |-> get_unit(pick, path[i]),
                         relation_to_next |->
                            IF i < Len(path) THEN relation_to_next(path[i], path[i + 1])
                            ELSE relation_to_next(path[i], path[i - 1])])
    IN F[Len(path)]

\* "Build lineage steps": nodes get_unit does not find are left out.
lineage_steps(path, pick) ==
    LET F[i \in 0..Len(path)] ==
            IF i = 0 THEN <<>>
            ELSE IF get_unit(pick, path[i]) = NoUnit THEN F[i - 1]
            ELSE Append(F[i - 1],
                        [unit |-> get_unit(pick, path[i]),
                         relation_to_next |->
                            IF i < Len(path) THEN relation_to_next(path[i], path[i + 1])
                            ELSE NoRelation])
    IN F[Len(path)]

\* find_path with one "if not start_results or not end_results" test that
\* names the start concept.
find_path_from_one_test(start_concept, end_concept, start_results, end_results, lengths, picks) ==
    LET args == <<start_concept, end_concept>>
    IN IF start_results = <<>> \/ end_results = <<>>
       THEN {Raised("find_path", args, "ValueError",
                    <<"No units found matching", start_concept>>)}
       ELSE UNION {
           IF best = NodeNotFound
           THEN {Raised("find_path", args, "NodeNotFound", <<>>)}
           ELSE IF best = NoPathYet
           THEN {Ok("find_path", args,
                    <<[unit |-> start_results[1].unit, relation_to_next |-> NoRelation],
                      [unit |-> end_results[1].unit, relation_to_next |-> NoRelation]>>)}
           ELSE {Ok("find_path", args, lineage_steps(best.path, pick)) : pick \in picks} :
           best \in scan_pairs(CandidatePairs(start_results, end_results), lengths)}

\* find_path after its two searches gave start_results and end_results: every
\* outcome.  lengths and picks are computed once by the caller.
find_path_from(start_concept, end_concept, start_results, end_results, lengths, picks) ==
    LET args == <<start_concept, end_concept>>
    IN IF start_results = <<>>
       THEN {Raised("find_path", args, "ValueError",
                    <<"No units found matching", start_concept>>)}
       ELSE IF end_results = <<>>
       THEN {Raised("find_path", args, "ValueError",
                    <<"No units found matching", end_concept>>)}
       ELSE UNION {
           IF best = NodeNotFound
           THEN {Raised("find_path", args, "NodeNotFound", <<>>)}
           ELSE IF best = NoPathYet
           THEN {Ok("find_path", args,
                    <<[unit |-> start_results[1].unit, relation_to_next |-> NoRelation],
                      [unit |-> end_results[1].unit, relation_to_next |-> NoRelation]>>)}
           ELSE {Ok("find_path", args, lineage_steps(best.path, pick)) : pick \in picks} :
           best \in scan_pairs(CandidatePairs(start_results, end_results), lengths)}

\* find_path: every outcome of one call.
find_path(start_concept, end_concept) ==
    LET lengths == {<<s, t, path_length(s, t)>> : s \in Nodes, t \in Nodes}
        picks == Picks
    IN UNION {find_path_from(start_concept, end_concept, sr, er, lengths, picks) :
                sr \in semantic_search(start_concept, PathCandidates),
                er \in semantic_search(end_concept, PathCandidates)}

\* server.find_scientific_lineage around one find_path outcome: a ValueError
\* becomes an error result, any other exception leaves the tool.
find_scientific_lineage(outcome) ==
    IF outcome.status = "ok"
    THEN [status |-> "success", path_length |-> Len(outcome.value)]
    ELSE IF outcome.error = "ValueError"
    THEN [status |-> "error", message |-> outcome.message]
    ELSE [status |-> "escaped", error |-> outcome.error]

is_conflict_type_contradicts_only(type) == type = "contradicts"

\* rel.type in ("refutes", "contradicts")
is_conflict_type(type) == type \in {"refutes", "contradicts"}

\* The inner loop without "break", keeping the relation found last.
first_conflict_last_stored(rels) ==
    LET hits == {i \in DOMAIN rels : is_conflict_type(rels[i].type)}
    IN IF hits = {} THEN NoRelation
       ELSE rels[CHOOSE i \in hits : \A j \in hits : j <= i]

\* "for rel in relations: if rel.type in (...): ...; break": the first relation
\* of the list with a conflict type, NoRelation when the loop ends without one.
first_conflict(rels) ==
    LET hits == {i \in DOMAIN rels : is_conflict_type(rels[i].type)}
    IN IF hits = {} THEN NoRelation ELSE rels[Min(hits)]

\* The body of get_conflicts' loop for one search result list.
conflicts_of(similar) ==
    LET F[i \in 0..Len(similar)] ==
            IF i = 0 THEN <<>>
            ELSE LET unit == similar[i].unit
                     score == similar[i].score
                     rel == first_conflict(get_relations_for_unit(unit.id))
                 IN IF score < RelevanceFloor THEN F[i - 1]
                    ELSE IF rel # NoRelation
                    THEN Append(F[i - 1],
                                [conflicting_unit |-> unit, relation |-> rel,
                                 explanation |-> <<"relationship", rel.type, rel.reasoning>>])
                    ELSE IF score > NearDuplicate
                    THEN Append(F[i - 1],
                                [conflicting_unit |-> unit, relation |-> NoRelation,
                                 explanation |-> <<"highly similar", score>>])
                    ELSE F[i - 1]
    IN F[Len(similar)]

get_conflicts_no_match(claim) ==
    IF table = <<>>
    THEN {Raised("get_conflicts", <<claim>>, "ValueError", <<"No units found matching", claim>>)}
    ELSE {Ok("get_conflicts", <<claim>>, conflicts_of(similar)) :
          similar \in semantic_search(claim, ConflictCandidates)}

get_conflicts(claim) ==
    {Ok("get_conflicts", <<claim>>, conflicts_of(similar)) :
     similar \in semantic_search(claim, ConflictCandidates)}

\* list_propositions: table.search().limit(limit), in whatever order the index
\* gives the rows.
list_propositions(limit) ==
    LET k == IF limit < Len(table) THEN limit ELSE Len(table)
    IN {Ok("list_propositions", <<limit>>, [i \in 1..k |-> UnitOfRow(table[p[i]])]) :
        p \in Arrangements(DOMAIN table, k)}

\* A read that first adds a graph node for every unit of the index.
Reads_adding_nodes(outcomes) ==
    /\ last' \in outcomes
    /\ graph_nodes' = graph_nodes \cup TableIds
    /\ UNCHANGED <<table, graph_edges, relations, relations_file, next_uuid, live>>

\* A query of the engine: one of its outcomes, and nothing written.
Reads(outcomes) ==
    /\ last' \in outcomes
    /\ UNCHANGED <<table, graph_nodes, graph_edges, relations, relations_file, next_uuid, live>>

\* A call of the engine that goes through no tool of the server: the
\* idempotency cache is only used by the tools.
Direct(call) == call /\ UNCHANGED <<idempotency_cache, idempotency_file, result, pending>>

\* ---------------------------------------------------------------- collaborator failures
\* A call may find the embedding provider, the vector index or the file system
\* failing; the exception is the collaborator's, not a ValueError.  A failed
\* write of a JSON file leaves the file as it was.
Faults == {"none", "embedding", "index", "store"}

FaultError(fault) ==
    CASE fault = "embedding" -> "APIError"
      [] fault = "index" -> "LanceError"
      [] fault = "store" -> "OSError"

\* The call raising after the node of the new unit was added to the graph.
call_fails_node_added(op, args, error) ==
    /\ last' = Raised(op, args, error, <<>>)
    /\ graph_nodes' = add_node(graph_nodes, UuidPool[next_uuid + 1])
    /\ UNCHANGED <<table, graph_edges, relations, relations_file, next_uuid, live>>

\* An engine call that raises before it has written anything.
call_fails(op, args, error) ==
    /\ last' = Raised(op, args, error, <<>>)
    /\ UNCHANGED <<table, graph_nodes, graph_edges, relations, relations_file, next_uuid, live>>

\* connect_concepts when _save_relations raises inside add_relation: the edge is
\* in the graph and the record in _relations, relations.json is as before.
connect_concepts_unsaved(source_id, target_id, relation_type, reasoning) ==
    LET args == <<source_id, target_id, relation_type, reasoning>>
        relation == [source_id |-> source_id, target_id |-> target_id,
                     type |-> relation_type, reasoning |-> reasoning]
    IN \E pick \in Picks :
        IF verify_units(pick, source_id, target_id) # <<>>
        THEN /\ last' = Raised("connect_concepts", args, "ValueError",
                               verify_units(pick, source_id, target_id))
             /\ UNCHANGED <<table, graph_nodes, graph_edges, relations, relations_file,
                            next_uuid, live>>
        ELSE /\ graph_nodes' = add_edge_nodes(graph_nodes, source_id, target_id)
             /\ graph_edges' = add_edge(graph_edges, source_id, target_id,
                                        relation_type, reasoning)
             /\ relations' = add_relation(relations, relation)
             /\ last' = Raised("connect_concepts", args, FaultError("store"), <<>>)
             /\ UNCHANGED <<table, relations_file, next_uuid, live>>

\* delete_unit when _save_relations raises inside delete_relations_for_unit: the
\* rows and the node are gone, _relations is filtered, relations.json is as before.
delete_unit_unsaved(unit_id) ==
    \E pick \in Picks :
        LET unit == get_unit(pick, unit_id)
            kept == relations_without(unit_id)
            KeepRow(row) == row.id # unit_id
        IN IF unit = NoUnit \/ Len(kept) = Len(relations)
           THEN delete_unit(unit_id)
           ELSE /\ table' = SelectIdx(table, KeepRow)
                /\ graph_nodes' = IF unit_id \in Nodes
                                  THEN remove_node_nodes(graph_nodes, unit_id)
                                  ELSE graph_nodes
                /\ graph_edges' = IF unit_id \in Nodes
                                  THEN remove_node_edges(graph_edges, unit_id)
                                  ELSE graph_edges
                /\ relations' = kept
                /\ live' = {u \in live : u[1] # unit_id}
                /\ last' = Raised("delete_unit", <<unit_id>>, FaultError("store"), <<>>)
                /\ UNCHANGED <<relations_file, next_uuid>>

\* ---------------------------------------------------------------- engine calls of concurrent threads
\* The engine holds no lock: a call of one thread runs between any two
\* statements of a call of another.  Each definition below is one statement (or
\* the statements up to the next access to shared state) of connect_concepts,
\* delete_unit or find_path; pending holds the locals of the calls in progress.
EngineFrame == UNCHANGED <<idempotency_cache, idempotency_file, result, next_uuid>>

\* The graphs a find_path call in progress has coexisted with.
GraphOf(nodes, edges) == [nodes |-> nodes, edges |-> DOMAIN edges]
observe(calls, nodes, edges) ==
    IF calls.find_path = Idle THEN calls
    ELSE [calls EXCEPT !.find_path.during = @ \cup {GraphOf(nodes, edges)}]

\* connect_concepts, lines 147-153: both lookups and the two tests.
connect_concepts_verify(source_id, target_id, relation_type, reasoning) ==
    LET args == <<source_id, target_id, relation_type, reasoning>>
    IN /\ pending.connect_concepts = Idle
       /\ \E pick \in Picks :
            IF verify_units(pick, source_id, target_id) # <<>>
            THEN /\ last' = Raised("connect_concepts", args, "ValueError",
                                   verify_units(pick, source_id, target_id))
                 /\ UNCHANGED pending
            ELSE /\ pending' = [pending EXCEPT
                                  !.connect_concepts = [pc |-> "verified", args |-> args]]
                 /\ UNCHANGED last
       /\ UNCHANGED <<table, graph_nodes, graph_edges, relations, relations_file, live>>
       /\ EngineFrame

\* connect_concepts, lines 164-169: graph.add_edge.
connect_concepts_add_edge ==
    LET call == pending.connect_concepts
    IN /\ call.pc = "verified"
       /\ graph_nodes' = add_edge_nodes(graph_nodes, call.args[1], call.args[2])
       /\ graph_edges' = add_edge(graph_edges, call.args[1], call.args[2],
                                  call.args[3], call.args[4])
       /\ pending' = observe([pending EXCEPT !.connect_concepts.pc = "edge_added"],
                             graph_nodes', graph_edges')
       /\ UNCHANGED <<table, relations, relations_file, live, last>>
       /\ EngineFrame

\* add_relation, line 72: self._relations.append.
add_relation_append ==
    LET call == pending.connect_concepts
        relation == [source_id |-> call.args[1], target_id |-> call.args[2],
                     type |-> call.args[3], reasoning |-> call.args[4]]
    IN /\ call.pc = "edge_added"
       /\ relations' = add_relation(relations, relation)
       /\ pending' = [pending EXCEPT !.connect_concepts.pc = "appended"]
       /\ UNCHANGED <<table, graph_nodes, graph_edges, relations_file, live, last>>
       /\ EngineFrame

\* add_relation, line 73: _save_relations writes the list as it is now; the
\* call returns.
add_relation_save ==
    LET call == pending.connect_concepts
        relation == [source_id |-> call.args[1], target_id |-> call.args[2],
                     type |-> call.args[3], reasoning |-> call.args[4]]
    IN /\ call.pc = "appended"
       /\ relations_file' = relations
       /\ last' = Ok("connect_concepts", call.args, relation)
       /\ pending' = [pending EXCEPT !.connect_concepts = Idle]
       /\ UNCHANGED <<table, graph_nodes, graph_edges, relations, live>>
       /\ EngineFrame

\* delete_unit, lines 357-362: the lookup, the test and the connections.
delete_unit_lookup(unit_id) ==
    /\ pending.delete_unit = Idle
    /\ \E pick \in Picks :
         LET unit == get_unit(pick, unit_id)
         IN IF unit = NoUnit
            THEN /\ last' = Raised("delete_unit", <<unit_id>>, "ValueError",
                                   <<"Unit not found", unit_id>>)
                 /\ UNCHANGED pending
            ELSE /\ pending' = [pending EXCEPT
                                  !.delete_unit =
                                      [pc |-> "found", unit_id |-> unit_id, unit |-> unit,
                                       connections |-> Len(get_unit_connections(unit_id)),
                                       original_count |-> 0, kept |-> <<>>,
                                       deleted_count |-> 0]]
                 /\ UNCHANGED last
    /\ UNCHANGED <<table, graph_nodes, graph_edges, relations, relations_file, live>>
    /\ EngineFrame

\* delete_unit, line 365: table.delete.
delete_unit_table_delete ==
    LET call == pending.delete_unit
        KeepRow(row) == row.id # call.unit_id
    IN /\ call.pc = "found"
       /\ table' = SelectIdx(table, KeepRow)
       /\ live' = {u \in live : u[1] # call.unit_id}
       /\ pending' = [pending EXCEPT !.delete_unit.pc = "row_deleted"]
       /\ UNCHANGED <<graph_nodes, graph_edges, relations, relations_file, last>>
       /\ EngineFrame

\* delete_unit, lines 368-369: remove_node if the graph has the node.
delete_unit_remove_node ==
    LET call == pending.delete_unit
    IN /\ call.pc = "row_deleted"
       /\ graph_nodes' = IF call.unit_id \in Nodes
                         THEN remove_node_nodes(graph_nodes, call.unit_id)
                         ELSE graph_nodes
       /\ graph_edges' = IF call.unit_id \in Nodes
                         THEN remove_node_edges(graph_edges, call.unit_id)
                         ELSE graph_edges
       /\ pending' = observe([pending EXCEPT !.delete_unit.pc = "node_removed"],
                             graph_nodes', graph_edges')
       /\ UNCHANGED <<table, relations, relations_file, live, last>>
       /\ EngineFrame

\* delete_relations_for_unit, lines 112-116: the count and the new list are
\* computed from the list as it is now.
delete_relations_filter ==
    LET call == pending.delete_unit
    IN /\ call.pc = "node_removed"
       /\ pending' = [pending EXCEPT
                        !.delete_unit.pc = "filtered",
                        !.delete_unit.original_count = Len(relations),
                        !.delete_unit.kept = relations_without(call.unit_id)]
       /\ UNCHANGED <<table, graph_nodes, graph_edges, relations, relations_file, live, last>>
       /\ EngineFrame

\* delete_relations_for_unit, lines 113 and 117: the new list replaces
\* self._relations, whatever was appended to it in between.
delete_relations_assign ==
    LET call == pending.delete_unit
    IN /\ call.pc = "filtered"
       /\ relations' = call.kept
       /\ pending' = [pending EXCEPT
                        !.delete_unit.pc = "assigned",
                        !.delete_unit.deleted_count = call.original_count - Len(call.kept)]
       /\ UNCHANGED <<table, graph_nodes, graph_edges, relations_file, live, last>>
       /\ EngineFrame

\* delete_relations_for_unit, lines 118-120, and delete_unit's return.
delete_relations_save ==
    LET call == pending.delete_unit
    IN /\ call.pc = "assigned"
       /\ relations_file' = IF call.deleted_count > 0 THEN relations ELSE relations_file
       /\ last' = Ok("delete_unit", <<call.unit_id>>,
                     [deleted_unit_id |-> call.unit_id,
                      deleted_content |-> call.unit.content,
                      deleted_source |-> call.unit.source_doi,
                      deleted_relations_count |-> call.deleted_count,
                      connections_removed |-> call.connections])
       /\ pending' = [pending EXCEPT !.delete_unit = Idle]
       /\ UNCHANGED <<table, graph_nodes, graph_edges, relations, live>>
       /\ EngineFrame

\* What a find_path call among concurrent calls leaves in last: the outcome,
\* whether it is the result for unconnected units, and the graphs it coexisted with.
Finished(outcome, disconnected, during) ==
    [op |-> outcome.op, args |-> outcome.args, status |-> outcome.status,
     outcome |-> outcome, disconnected |-> disconnected, during |-> during]

\* find_path, lines 217-224: the two searches and their tests.
find_path_search(start_concept, end_concept) ==
    LET args == <<start_concept, end_concept>>
        now == {GraphOf(graph_nodes, graph_edges)}
    IN /\ pending.find_path = Idle
       /\ \E start_results \in semantic_search(start_concept, PathCandidates),
             end_results \in semantic_search(end_concept, PathCandidates) :
            IF start_results = <<>> \/ end_results = <<>>
            THEN /\ last' \in {Finished(o, FALSE, now) :
                                 o \in find_path_from(start_concept, end_concept,
                                                      start_results, end_results, {}, {})}
                 /\ UNCHANGED pending
            ELSE /\ pending' = [pending EXCEPT
                                  !.find_path = [pc |-> "searched", args |-> args,
                                                 start_results |-> start_results,
                                                 end_results |-> end_results,
                                                 best_path |-> <<>>, during |-> now]]
                 /\ UNCHANGED last
       /\ UNCHANGED <<table, graph_nodes, graph_edges, relations, relations_file, live>>
       /\ EngineFrame

\* find_path, lines 227-253: the loop over the candidate pairs on the graph as
\* it is now; NodeNotFound leaves the call, no path gives the two-step result.
find_path_scan ==
    LET call == pending.find_path
        lengths == {<<s, t, path_length(s, t)>> : s \in Nodes, t \in Nodes}
    IN /\ call.pc = "searched"
       /\ \E best \in scan_pairs(CandidatePairs(call.start_results, call.end_results), lengths) :
            IF best = NodeNotFound
            THEN /\ last' = Finished(Raised("find_path", call.args, "NodeNotFound", <<>>),
                                     FALSE, call.during)
                 /\ pending' = [pending EXCEPT !.find_path = Idle]
            ELSE IF best = NoPathYet
            THEN /\ last' = Finished(
                               Ok("find_path", call.args,
                                  <<[unit |-> call.start_results[1].unit,
                                     relation_to_next |-> NoRelation],
                                    [unit |-> call.end_results[1].unit,
                                     relation_to_next |-> NoRelation]>>),
                               TRUE, call.during)
                 /\ pending' = [pending EXCEPT !.find_path = Idle]
            ELSE /\ pending' = [pending EXCEPT !.find_path.pc = "scanned",
                                               !.find_path.best_path = best.path]
                 /\ UNCHANGED last
       /\ UNCHANGED <<table, graph_nodes, graph_edges, relations, relations_file, live>>
       /\ EngineFrame

\* find_path, lines 256-285: the steps, from the table and the graph as they
\* are now.
find_path_build ==
    LET call == pending.find_path
    IN /\ call.pc = "scanned"
       /\ \E pick \in Picks :
            last' = Finished(Ok("find_path", call.args, lineage_steps(call.best_path, pick)),
                             FALSE, call.during)
       /\ pending' = [pending EXCEPT !.find_path = Idle]
       /\ UNCHANGED <<table, graph_nodes, graph_edges, relations, relations_file, live>>
       /\ EngineFrame

\* ---------------------------------------------------------------- server: tools
\* What the caller of a tool gets: the dict the tool returns, or the exception
\* that leaves it.
Returned(tool, args, value) ==
    [tool |-> tool, args |-> args, outcome |-> "returned", value |-> value]
Escaped(tool, args, error) ==
    [tool |-> tool, args |-> args, outcome |-> "escaped", value |-> [error |-> error]]

\* "if idempotency_key: cached = check_idempotency(key); if cached: return cached"
is_cached(idempotency_key) ==
    idempotency_key \notin {None, ""} /\ idempotency_key \in DOMAIN idempotency_cache

\* PersistenceManager.store_idempotency: the cache after the assignment.
store_idempotency(cache, key, value) ==
    [k \in DOMAIN cache \cup {key} |-> IF k = key THEN value ELSE cache[k]]

NoCall == [op |-> "none"]     \* the tool returned without a call that is recorded

\* A tool that returns or fails without touching the engine's state.
ToolReads(outcome) ==
    /\ result' = outcome
    /\ last' = NoCall
    /\ UNCHANGED <<table, graph_nodes, graph_edges, relations, relations_file, next_uuid, live,
                   idempotency_cache, idempotency_file>>

\* After the engine call of a tool: cache the result under the key, if there is one.
\* With the file system failing the cache holds it, idempotency.json does not,
\* and the exception leaves the tool.
CacheAndReturn(tool, args, idempotency_key, value, fault) ==
    IF idempotency_key \in {None, ""}
    THEN /\ result' = Returned(tool, args, value)
         /\ UNCHANGED <<idempotency_cache, idempotency_file>>
    ELSE /\ idempotency_cache' = store_idempotency(idempotency_cache, idempotency_key, value)
         /\ IF fault = "store"
            THEN /\ result' = Escaped(tool, args, FaultError("store"))
                 /\ UNCHANGED idempotency_file
            ELSE /\ result' = Returned(tool, args, value)
                 /\ idempotency_file' = idempotency_cache'

ingest_hypothesis(hypothesis, source, confidence, idempotency_key, fault) ==
    LET args == <<hypothesis, source, confidence, idempotency_key>>
        source_doi == IF source = "" THEN None ELSE source
    IN IF is_cached(idempotency_key)
       THEN ToolReads(Returned("ingest_hypothesis", args, idempotency_cache[idempotency_key]))
       ELSE IF fault \in {"embedding", "index"}
       THEN /\ call_fails("add_proposition", <<hypothesis, source_doi, confidence, None>>,
                          FaultError(fault))
            /\ result' = Escaped("ingest_hypothesis", args, FaultError(fault))
            /\ UNCHANGED <<idempotency_cache, idempotency_file>>
       ELSE /\ add_proposition(hypothesis, source_doi, confidence, None)
            /\ CacheAndReturn("ingest_hypothesis", args, idempotency_key,
                              [status |-> "success",
                               unit_id |-> last'.value.id,
                               content |-> last'.value.content,
                               source |-> last'.value.source_doi,
                               confidence |-> last'.value.confidence],
                              fault)

\* The handler storing the error result under the key.
return_error_stored(tool, args, idempotency_key, message) ==
    CacheAndReturn(tool, args, idempotency_key,
                   [status |-> "error", message |-> message], "none")

\* connect_propositions, "except ValueError as e: return {...}": the error
\* result, with nothing stored under the key.
return_error(tool, args, idempotency_key, message) ==
    /\ result' = Returned(tool, args, [status |-> "error", message |-> message])
    /\ UNCHANGED <<idempotency_cache, idempotency_file>>

valid_relations_unchecked == RelationTypes \cup {"causes"}

valid_relations == RelationTypes

connect_propositions(id_a, id_b, relation, reasoning, idempotency_key, fault) ==
    LET args == <<id_a, id_b, relation, reasoning, idempotency_key>>
        tool == "connect_propositions"
    IN IF relation \notin valid_relations
       THEN ToolReads(Returned(tool, args,
                               [status |-> "error", message |-> <<"Invalid relation type">>]))
       ELSE IF is_cached(idempotency_key)
       THEN ToolReads(Returned(tool, args, idempotency_cache[idempotency_key]))
       ELSE IF fault = "index"
       THEN /\ call_fails("connect_concepts", <<id_a, id_b, relation, reasoning>>,
                          FaultError(fault))
            /\ result' = Escaped(tool, args, FaultError(fault))
            /\ UNCHANGED <<idempotency_cache, idempotency_file>>
       ELSE /\ IF fault = "store" /\ idempotency_key \in {None, ""}
               THEN connect_concepts_unsaved(id_a, id_b, relation, reasoning)
               ELSE connect_concepts(id_a, id_b, relation, reasoning)
            /\ IF last'.status = "ok"
               THEN \E pick \in {p \in [TableIds -> DOMAIN table] :
                                    \A id \in TableIds : table[p[id]].id = id} :
                       CacheAndReturn(tool, args, idempotency_key,
                                      [status |-> "success",
                                       relation |-> last'.value,
                                       source_content |-> get_unit(pick, id_a).content,
                                       target_content |-> get_unit(pick, id_b).content],
                                      fault)
               ELSE IF last'.error = "ValueError"
               THEN return_error(tool, args, idempotency_key, last'.message)
               ELSE /\ result' = Escaped(tool, args, last'.error)
                    /\ UNCHANGED <<idempotency_cache, idempotency_file>>

\* find_scientific_lineage: find_path, a ValueError becomes an error result.
lineage(start_concept, end_concept, fault) ==
    LET args == <<start_concept, end_concept>>
        tool == "find_scientific_lineage"
    IN IF fault \in {"embedding", "index"}
       THEN ToolReads(Escaped(tool, args, FaultError(fault)))
       ELSE \E outcome \in find_path(start_concept, end_concept) :
               ToolReads(IF find_scientific_lineage(outcome).status = "escaped"
                         THEN Escaped(tool, args, outcome.error)
                         ELSE Returned(tool, args, find_scientific_lineage(outcome)))

find_contradictions(claim, fault) ==
    LET args == <<claim>>
        tool == "find_contradictions"
    IN IF fault \in {"embedding", "index"}
       THEN ToolReads(Escaped(tool, args, FaultError(fault)))
       ELSE \E outcome \in get_conflicts(claim) :
               ToolReads(Returned(tool, args,
                                  [status |-> "success",
                                   conflicts_found |-> Len(outcome.value) > 0,
                                   conflict_count |-> Len(outcome.value)]))

tool_semantic_search(query, limit, fault) ==
    LET args == <<query, limit>>
        tool == "semantic_search"
        capped == IF limit < 20 THEN limit ELSE 20
    IN IF fault \in {"embedding", "index"}
       THEN ToolReads(Escaped(tool, args, FaultError(fault)))
       ELSE \E results \in semantic_search(query, capped) :
               ToolReads(Returned(tool, args,
                                  [status |-> "success",
                                   total_found |-> Len(results),
                                   results |-> [i \in DOMAIN results |-> results[i].unit.id]]))

tool_get_unit(unit_id, fault) ==
    LET args == <<unit_id>>
        tool == "get_unit"
        connections == get_unit_connections(unit_id)
    IN IF fault = "index"
       THEN ToolReads(Escaped(tool, args, FaultError(fault)))
       ELSE \E pick \in Picks :
               LET unit == get_unit(pick, unit_id)
               IN ToolReads(Returned(tool, args,
                     IF unit = NoUnit
                     THEN [status |-> "error", message |-> <<"Unit not found", unit_id>>]
                     ELSE [status |-> "success",
                           unit |-> unit,
                           connections |->
                               [i \in DOMAIN connections |->
                                   IF connections[i].source_id = unit_id
                                   THEN [type |-> connections[i].type,
                                         direction |-> "outgoing",
                                         connected |-> connections[i].target_id]
                                   ELSE [type |-> connections[i].type,
                                         direction |-> "incoming",
                                         connected |-> connections[i].source_id]],
                           connection_count |-> Len(connections)]))

\* delete_unit: "if not confirm:"
asks_confirmation_never(confirm) == FALSE

asks_confirmation(confirm) == ~confirm

tool_delete_unit(unit_id, confirm, fault) ==
    LET args == <<unit_id, confirm>>
        tool == "delete_unit"
    IN IF asks_confirmation(confirm)
       THEN IF fault = "index"
            THEN ToolReads(Escaped(tool, args, FaultError(fault)))
            ELSE \E pick \in Picks :
                    LET unit == get_unit(pick, unit_id)
                    IN ToolReads(Returned(tool, args,
                          IF unit = NoUnit
                          THEN [status |-> "error", message |-> <<"Unit not found", unit_id>>]
                          ELSE [status |-> "confirmation_required",
                                unit_to_delete |-> [id |-> unit.id, content |-> unit.content,
                                                    source |-> unit.source_doi],
                                connections_to_delete |-> Len(get_unit_connections(unit_id))]))
       ELSE /\ IF fault = "index"
               THEN call_fails("delete_unit", <<unit_id>>, FaultError(fault))
               ELSE IF fault = "store"
               THEN delete_unit_unsaved(unit_id)
               ELSE delete_unit(unit_id)
            /\ result' =
                 IF last'.status = "ok"
                 THEN Returned(tool, args,
                               [status |-> "success",
                                deleted |-> [unit_id |-> last'.value.deleted_unit_id,
                                             content |-> last'.value.deleted_content,
                                             source |-> last'.value.deleted_source,
                                             relations_removed |->
                                                 last'.value.deleted_relations_count]])
                 ELSE IF last'.error = "ValueError"
                 THEN Returned(tool, args, [status |-> "error", message |-> last'.message])
                 ELSE Escaped(tool, args, last'.error)
            /\ UNCHANGED <<idempotency_cache, idempotency_file>>

\* ---------------------------------------------------------------- specification
\* Ids a caller can name: those in the table, those ever generated, its own.
KnownIds == TableIds \cup {UuidPool[i] : i \in 1..next_uuid} \cup CallerIds

Adds(contents, sources, confidences, unit_ids, max_units, max_gen) ==
    \E content \in contents, source_doi \in sources, confidence \in confidences,
       unit_id \in unit_ids :
        /\ Len(table) < max_units
        /\ unit_id = None => next_uuid < max_gen
        /\ Direct(add_proposition(content, source_doi, confidence, unit_id))

Connects(ids, types, max_rels) ==
    \E source_id \in ids, target_id \in ids, type \in types, reasoning \in Reasonings :
        /\ Len(relations) < max_rels
        /\ Direct(connect_concepts(source_id, target_id, type, reasoning))

Deletes(ids) == \E unit_id \in ids : Direct(delete_unit(unit_id))

\* Spec: ids, relations and graph under every write and the restart.
AddProposition ==
    Adds({"A"}, {None}, {10}, {None} \cup CallerIds \cup TableIds, MaxUnits, MaxGen)
ConnectConcepts == Connects(KnownIds, {"implies"}, MaxRels)
DeleteUnit == Deletes(KnownIds)
Restart == restart

Next == AddProposition \/ ConnectConcepts \/ DeleteUnit \/ Restart

Spec == Init /\ [][Next]_vars

\* SpecSearch: the units table under ingestion and deletion, and similarity search.
SearchAdd == Adds(Texts, {None}, {10}, {None} \cup TableIds, SearchUnits, SearchUnits)
SearchDelete == Deletes(KnownIds)
SemanticSearch ==
    \E query \in Queries, limit \in 1..SearchLimit :
        Direct(Reads({Ok("semantic_search", <<query, limit>>, r) :
                      r \in semantic_search(query, limit)}))

NextSearch == SearchAdd \/ SearchDelete \/ SemanticSearch

SpecSearch == Init /\ [][NextSearch]_vars

\* SpecPath: lineage search over the graph, with the restart.
\* The k-th unit ingested has content PathContents[k].
PathContents == <<"A", "A", "B", "B", "A", "B">>
PathAdd == Adds({PathContents[Len(table) + 1]}, {None}, {10}, {None}, PathUnits, PathUnits)
PathConnect == Connects(TableIds, {"implies"}, PathRels)
PathRestart == restart
FindPath == \E a \in Texts, b \in Texts : Direct(Reads(find_path(a, b)))

NextPath == PathAdd \/ PathConnect \/ PathRestart \/ FindPath

SpecPath == Init /\ [][NextPath]_vars

\* SpecConflict: conflict detection over the table and the relation store.
ConflictAdd == Adds(Texts, {None}, {10}, {None}, ConflictUnits, ConflictUnits)
ConflictConnect == Connects(TableIds, {"implies", "refutes", "contradicts"}, ConflictRels)
ConflictDelete == Deletes(TableIds)
GetConflicts == \E claim \in Queries : Direct(Reads(get_conflicts(claim)))

NextConflict == ConflictAdd \/ ConflictConnect \/ ConflictDelete \/ GetConflicts

SpecConflict == Init /\ [][NextConflict]_vars

\* SpecIngest: ingestion and lookup, every kind of argument.
IngestAdd ==
    Adds(Texts, Sources, Confidences, {None} \cup CallerIds \cup TableIds,
         IngestUnits, IngestUnits)
IngestDelete == Deletes(KnownIds)

NextIngest == IngestAdd \/ IngestDelete

SpecIngest == Init /\ [][NextIngest]_vars

\* SpecStore: graph, relation list and relations.json, with writes of
\* relations.json that fail, and the restart.
StoreAdd == Adds({"A"}, {None}, {10}, {None}, StoreUnits, StoreUnits)
StoreConnect == Connects(KnownIds, {"refutes"}, StoreRels)
StoreConnectUnsaved ==
    \E source_id \in TableIds, target_id \in TableIds, type \in {"refutes"},
       reasoning \in Reasonings :
        /\ Len(relations) < StoreRels
        /\ Direct(connect_concepts_unsaved(source_id, target_id, type, reasoning))
StoreDelete == Deletes(KnownIds)
StoreDeleteUnsaved ==
    \E unit_id \in TableIds :
        /\ Len(relations_without(unit_id)) < Len(relations)
        /\ Direct(delete_unit_unsaved(unit_id))
StoreRestart == restart

NextStore ==
    \/ StoreAdd \/ StoreConnect \/ StoreConnectUnsaved
    \/ StoreDelete \/ StoreDeleteUnsaved \/ StoreRestart

SpecStore == Init /\ [][NextStore]_vars

\* SpecDelete: deletion of units of every content and source, with relations
\* in both directions, from a unit to itself, and stored twice.
DeleteAdd ==
    Adds(Texts, {"", "doi"}, {10}, {None} \cup TableIds, DeleteUnits, DeleteUnits)
DeleteConnect == Connects(TableIds, {"implies"}, DeleteRels)
DeleteDelete == Deletes(KnownIds)

NextDelete == DeleteAdd \/ DeleteConnect \/ DeleteDelete

SpecDelete == Init /\ [][NextDelete]_vars

\* Tool calls with arguments from given sets.
Keys == {None, "", "k1"}             \* idempotency_key arguments

Ingests(sources, keys, faults, max_units, max_gen) ==
    \E source \in sources, idempotency_key \in keys, fault \in faults :
        /\ Len(table) < max_units
        /\ next_uuid < max_gen
        /\ ingest_hypothesis("A", source, 10, idempotency_key, fault)
        /\ UNCHANGED pending

ConnectsPropositions(ids, relation_values, keys, faults, max_rels) ==
    \E id_a \in ids, id_b \in ids, relation \in relation_values,
       idempotency_key \in keys, fault \in faults :
        /\ Len(relations) < max_rels
        /\ connect_propositions(id_a, id_b, relation, "r", idempotency_key, fault)
        /\ UNCHANGED pending

DeletesUnit(ids, confirms, faults) ==
    \E unit_id \in ids, confirm \in confirms, fault \in faults :
        tool_delete_unit(unit_id, confirm, fault) /\ UNCHANGED pending

\* SpecTools: the seven tools of the server, with failing collaborators, and the restart.
ToolFaults == {"none", "index"}

IngestHypothesis == Ingests({"doi"}, {None}, {"none", "embedding"}, ToolUnits, ToolUnits)
ConnectPropositions == ConnectsPropositions(TableIds, {"refutes"}, {None}, ToolFaults, ToolRels)
FindScientificLineage ==
    \E fault \in ToolFaults : lineage("A", "A", fault) /\ UNCHANGED pending
FindContradictions ==
    \E fault \in ToolFaults : find_contradictions("A", fault) /\ UNCHANGED pending
ToolSemanticSearch ==
    \E fault \in ToolFaults : tool_semantic_search("A", 1, fault) /\ UNCHANGED pending
ToolGetUnit ==
    \E unit_id \in KnownIds, fault \in ToolFaults :
        tool_get_unit(unit_id, fault) /\ UNCHANGED pending
ToolDeleteUnit == DeletesUnit(KnownIds, BOOLEAN, ToolFaults)
ToolRestart == restart

NextTools ==
    \/ IngestHypothesis \/ ConnectPropositions \/ FindScientificLineage
    \/ FindContradictions \/ ToolSemanticSearch \/ ToolGetUnit \/ ToolDeleteUnit
    \/ ToolRestart

SpecTools == Init /\ [][NextTools]_vars

\* SpecIdem: the writing tools with idempotency keys, relation values of every
\* kind, the confirmation of delete_unit, failing file writes, and the restart.
IdemIngest == Ingests({"doi"}, Keys, {"none", "store"}, IdemUnits, IdemUnits)
IdemConnect ==
    ConnectsPropositions(KnownIds, {"refutes", "causes"}, Keys, {"none", "store"}, IdemRels)
IdemDelete == DeletesUnit(KnownIds, BOOLEAN, {"none", "index"})
IdemRestart == restart

NextIdem == IdemIngest \/ IdemConnect \/ IdemDelete \/ IdemRestart

SpecIdem == Init /\ [][NextIdem]_vars

\* SpecContra: conflict detection over units with several relations each.
\* The k-th relation stored has type ContraTypes[k].
ContraTypes == <<"implies", "refutes", "contradicts", "refutes">>
ContraAdd == Adds(Texts, {None}, {10}, {None}, ContraUnits, ContraUnits)
ContraConnect == Connects(TableIds, {ContraTypes[Len(relations) + 1]}, ContraRels)
ContraGetConflicts == \E claim \in Queries : Direct(Reads(get_conflicts(claim)))

NextContra == ContraAdd \/ ContraConnect \/ ContraGetConflicts

SpecContra == Init /\ [][NextContra]_vars

\* SpecLineage: lineage search over relations of two types in either direction.
\* The k-th relation stored has type LineageTypes[k].
LineageTypes == <<"implies", "refutes", "extends", "supports">>
LineageAdd ==
    Adds({PathContents[Len(table) + 1]}, {None}, {10}, {None}, LineageUnits, LineageUnits)
LineageConnect == Connects(TableIds, {LineageTypes[Len(relations) + 1]}, LineageRels)
LineageFindPath == \E a \in Texts, b \in Texts : Direct(Reads(find_path(a, b)))

NextLineage == LineageAdd \/ LineageConnect \/ LineageFindPath

SpecLineage == Init /\ [][NextLineage]_vars

\* SpecLatest: several relations stored for one ordered pair, the restart, and
\* lineage search.  The k-th relation stored has type LineageTypes[k] and
\* reasoning LatestReasonings[k].
LatestReasonings == <<"r", "r2", "r3", "r4">>
LatestAdd ==
    Adds({PathContents[Len(table) + 1]}, {None}, {10}, {None}, LatestUnits, LatestUnits)
LatestConnect ==
    \E source_id \in TableIds, target_id \in TableIds :
        /\ Len(relations) < LatestRels
        /\ Direct(connect_concepts(source_id, target_id, LineageTypes[Len(relations) + 1],
                                   LatestReasonings[Len(relations) + 1]))
LatestRestart == restart
LatestFindPath ==
    /\ Len(relations) = LatestRels
    /\ Direct(Reads(find_path("A", "A")))

NextLatest == LatestAdd \/ LatestConnect \/ LatestRestart \/ LatestFindPath

SpecLatest == Init /\ [][NextLatest]_vars

\* SpecQuery: the six queries of the engine, succeeding and failing, between
\* writes and restarts.
QueryOps ==
    {"get_unit", "semantic_search", "find_path", "get_conflicts", "list_propositions",
     "get_unit_connections"}
QueryAdd == Adds(Texts, {None}, {10}, {None}, QueryUnits, QueryUnits)
QueryConnect == Connects(TableIds, {"refutes"}, QueryRels)
QueryDelete == Deletes(TableIds)
QueryRestart == restart
QueryGetUnit ==
    \E unit_id \in KnownIds :
        Direct(Reads({Ok("get_unit", <<unit_id>>, get_unit(pick, unit_id)) : pick \in Picks}))
QuerySemanticSearch ==
    \E limit \in 1..QueryLimit :
        Direct(Reads({Ok("semantic_search", <<"A", limit>>, r) :
                      r \in semantic_search("A", limit)}))
QueryFindPath == Direct(Reads(find_path("A", "B")))
QueryGetConflicts == Direct(Reads(get_conflicts("A")))
QueryListPropositions ==
    \E limit \in 1..QueryLimit : Direct(Reads(list_propositions(limit)))
QueryGetUnitConnections ==
    \E unit_id \in KnownIds :
        Direct(Reads({Ok("get_unit_connections", <<unit_id>>, get_unit_connections(unit_id))}))
QueryFails ==
    \E op \in {"semantic_search", "find_path", "get_conflicts"},
       fault \in {"embedding", "index"} :
        Direct(call_fails(op, <<"A">>, FaultError(fault)))

NextQuery ==
    \/ QueryAdd \/ QueryConnect \/ QueryDelete \/ QueryRestart
    \/ QueryGetUnit \/ QuerySemanticSearch \/ QueryFindPath \/ QueryGetConflicts
    \/ QueryListPropositions \/ QueryGetUnitConnections \/ QueryFails

SpecQuery == Init /\ [][NextQuery]_vars

\* SpecEmbed: ingest_hypothesis with keys while the embedding provider may
\* fail, over a graph with relations, and the restart.
EmbedIngest == Ingests({"", "doi"}, Keys, {"none", "embedding"}, EmbedUnits, EmbedUnits)
EmbedConnect == ConnectsPropositions(TableIds, {"refutes"}, {None}, {"none"}, EmbedRels)
EmbedRestart == restart

NextEmbed == EmbedIngest \/ EmbedConnect \/ EmbedRestart

SpecEmbed == Init /\ [][NextEmbed]_vars

\* SpecRetry: connect_propositions with keys, ids of units that do not exist
\* yet and relation values of every kind, between ingestions.
RetryAdd == Adds({"A"}, {None}, {10}, {None} \cup CallerIds, RetryUnits, RetryUnits)
RetryConnect ==
    ConnectsPropositions(KnownIds, {"refutes", "causes"}, Keys, {"none"}, RetryRels)
RetryRestart == restart

NextRetry == RetryAdd \/ RetryConnect \/ RetryRestart

SpecRetry == Init /\ [][NextRetry]_vars

\* SpecReplay: ingest_hypothesis with and without keys, delete_unit, and the restart.
ReplayIngest == Ingests({"", "doi"}, Keys, {"none"}, ReplayUnits, ReplayGen)
ReplayDelete == DeletesUnit(KnownIds, BOOLEAN, {"none"})
ReplayRestart == restart

NextReplay == ReplayIngest \/ ReplayDelete \/ ReplayRestart

SpecReplay == Init /\ [][NextReplay]_vars

\* SpecRace: connect_concepts and delete_unit calls of two threads, statement
\* by statement; calls in progress at the same time touch a common unit id.
RaceAdd ==
    /\ pending = NoPending
    /\ Adds({"A"}, {None}, {10}, {None}, RaceUnits, RaceUnits)
ConnectVerify ==
    \E source_id \in TableIds, target_id \in TableIds :
        /\ Len(relations) < RaceRels
        /\ pending.delete_unit # Idle => pending.delete_unit.unit_id \in {source_id, target_id}
        /\ connect_concepts_verify(source_id, target_id, "implies", "r")
ConnectAddEdge == connect_concepts_add_edge
ConnectAppend == add_relation_append
ConnectSave == add_relation_save
DeleteLookup ==
    \E unit_id \in TableIds :
        /\ pending.connect_concepts # Idle
              => unit_id \in {pending.connect_concepts.args[1], pending.connect_concepts.args[2]}
        /\ delete_unit_lookup(unit_id)
DeleteTableDelete == delete_unit_table_delete
DeleteRemoveNode == delete_unit_remove_node
DeleteFilter == delete_relations_filter
DeleteAssign == delete_relations_assign
DeleteSave == delete_relations_save

NextRace ==
    \/ RaceAdd \/ ConnectVerify \/ ConnectAddEdge \/ ConnectAppend \/ ConnectSave
    \/ DeleteLookup \/ DeleteTableDelete \/ DeleteRemoveNode
    \/ DeleteFilter \/ DeleteAssign \/ DeleteSave

SpecRace == Init /\ [][NextRace]_vars

\* SpecSnapshot: a find_path call beside connect_concepts and delete_unit calls
\* of other threads.
FindSearch == \E a \in {"A"}, b \in {"A"} : find_path_search(a, b)
FindScan == find_path_scan
FindBuild == find_path_build

NextSnapshot == NextRace \/ FindSearch \/ FindScan \/ FindBuild

SpecSnapshot == Init /\ [][NextSnapshot]_vars

\* ================================================================ claims

\* C1: after delete_unit(id) succeeds, get_unit(id) is absent, the relation
\* store (in memory and on disk) holds no relation with id as source or target,
\* get_relations_for_unit(id) is empty, and the graph has no node id and no
\* edge incident to it.
C1_DeleteRemovesUnitAndRelations ==
    (last.op = "delete_unit" /\ last.status = "ok") =>
        LET id == last.args[1]
        IN /\ \A pick \in Picks : get_unit(pick, id) = NoUnit
           /\ get_relations_for_unit(id) = <<>>
           /\ \A r \in Range(relations) \cup Range(relations_file) : ~Touches(r, id)
           /\ id \notin Nodes
           /\ \A e \in Edges : e[1] # id /\ e[2] # id

\* A unit that took part in a relation has been deleted, another unit remains.
C1_Witness ==
    /\ last.op = "delete_unit"
    /\ last.status = "ok"
    /\ last.value.deleted_relations_count > 0
    /\ last.value.deleted_unit_id \notin {u[1] : u \in live}
    /\ table # <<>>

\* C2: a connect_concepts call whose source_id or target_id does not resolve
\* raises a not-found ValueError naming an id of the call that does not resolve
\* (the source when it is missing, else the target) and leaves the graph's
\* nodes and edges and the relation store (memory and disk) unchanged.
C2_ConnectMissingUnitFails ==
    [][(/\ last'.op = "connect_concepts"
        /\ (last'.args[1] \notin TableIds \/ last'.args[2] \notin TableIds))
       => /\ last'.status = "raised"
          /\ last'.error = "ValueError"
          /\ last'.message = IF last'.args[1] \notin TableIds
                             THEN <<"Source unit not found", last'.args[1]>>
                             ELSE <<"Target unit not found", last'.args[2]>>
          /\ UNCHANGED <<graph_nodes, graph_edges, relations, relations_file>>]_vars

\* connect_concepts with an existing source and a missing target has failed,
\* while the store already holds a relation.
C2_Witness ==
    /\ last.op = "connect_concepts"
    /\ last.status = "raised"
    /\ last.args[1] \in TableIds
    /\ last.args[2] \notin TableIds
    /\ relations # <<>>

\* C3: after every add_proposition, get_unit on the returned unit's id returns
\* a unit with the content, source and confidence of the returned unit.
C3_GetUnitReturnsIngestedUnit ==
    (last.op = "add_proposition" /\ last.status = "ok") =>
        \A pick \in Picks :
            LET unit == get_unit(pick, last.value.id)
            IN /\ unit # NoUnit
               /\ unit.content = last.value.content
               /\ unit.source_doi = last.value.source_doi
               /\ unit.confidence = last.value.confidence

\* C4: semantic_search(query, limit) returns at most limit results, each a unit
\* that was ingested and has not been deleted since.
C4_SearchBoundedAndLive ==
    (last.op = "semantic_search" /\ last.status = "ok") =>
        /\ Len(last.value) <= last.args[2]
        /\ \A i \in DOMAIN last.value :
              <<last.value[i].unit.id, last.value[i].unit.content>> \in live

\* A search cut at its limit, after a generated id has been deleted.
C4_Witness ==
    /\ last.op = "semantic_search"
    /\ Len(last.value) = last.args[2]
    /\ Len(table) > last.args[2]
    /\ next_uuid > Cardinality(TableIds)

\* ---- lineage claims: the reference notions they are stated with
\* u and v are joined by a stored edge, in either direction.
Joined(u, v) == <<u, v>> \in Edges \/ <<v, u>> \in Edges

EdgeEnds == {e[1] : e \in Edges} \cup {e[2] : e \in Edges}

\* Node count of a shortest undirected path from s to t; 0 when they are not connected.
RefLength(s, t) ==
    LET ns == {n \in 2..Cardinality(EdgeEnds) :
                 \E p \in Arrangements(EdgeEnds, n) :
                    /\ p[1] = s
                    /\ p[n] = t
                    /\ \A i \in 1..(n - 1) : Joined(p[i], p[i + 1])}
    IN IF ns = {} THEN 0 ELSE Min(ns)

\* The candidate lists (ids, in rank order) the search may give for a concept.
CandidateLists(concept) ==
    {[i \in DOMAIN r |-> r[i].unit.id] : r \in semantic_search(concept, PathCandidates)}

\* <<s, t, RefLength(s, t)>> for the connected pairs of distinct units.
RefLengths ==
    {x \in {<<s, t, RefLength(s, t)>> : s \in TableIds, t \in TableIds} :
        x[1] # x[2] /\ x[3] > 0}

\* Path lengths of the connected pairs of distinct candidates, lengths being RefLengths.
PairLengths(starts, ends, lengths) ==
    {x[3] : x \in {y \in lengths : y[1] \in Range(starts) /\ y[2] \in Range(ends)}}

\* C5: when no pair of distinct candidates is connected in the undirected view,
\* find_path returns exactly two steps, the best start match and the best end
\* match, each without relation, and raises nothing; also after a restart.
C5_DisconnectedGivesTwoSteps ==
    (/\ last.op = "find_path"
     /\ table # <<>>
     /\ LET lengths == RefLengths
        IN \A starts \in CandidateLists(last.args[1]), ends \in CandidateLists(last.args[2]) :
               PairLengths(starts, ends, lengths) = {})
    => /\ last.status = "ok"
       /\ Len(last.value) = 2
       /\ \E starts \in CandidateLists(last.args[1]), ends \in CandidateLists(last.args[2]) :
            /\ last.value[1].unit.id = starts[1]
            /\ last.value[2].unit.id = ends[1]
       /\ last.value[1].relation_to_next = NoRelation
       /\ last.value[2].relation_to_next = NoRelation

\* C6: when some pair of distinct candidates is connected, find_path returns at
\* least 2 steps that form an undirected path from a start candidate to an end
\* candidate, and find_scientific_lineage reports success.
C6_ConnectedGivesPath ==
    (/\ last.op = "find_path"
     /\ table # <<>>
     /\ LET lengths == RefLengths
        IN \A starts \in CandidateLists(last.args[1]), ends \in CandidateLists(last.args[2]) :
               PairLengths(starts, ends, lengths) # {})
    => /\ last.status = "ok"
       /\ find_scientific_lineage(last).status = "success"
       /\ Len(last.value) >= 2
       /\ \A i \in 1..(Len(last.value) - 1) :
            Joined(last.value[i].unit.id, last.value[i + 1].unit.id)
       /\ \E starts \in CandidateLists(last.args[1]), ends \in CandidateLists(last.args[2]) :
            /\ last.value[1].unit.id \in Range(starts)
            /\ last.value[Len(last.value)].unit.id \in Range(ends)

\* C7: a path find_path returns has the fewest nodes over all connected pairs of
\* distinct candidates: its step count is the least distance + 1 of such a pair.
C7_ReturnedPathIsShortest ==
    (/\ last.op = "find_path"
     /\ last.status = "ok"
     /\ last.value[1].relation_to_next # NoRelation)
    => LET lengths == RefLengths
       IN \E starts \in CandidateLists(last.args[1]), ends \in CandidateLists(last.args[2]) :
             /\ PairLengths(starts, ends, lengths) # {}
             /\ Len(last.value) = Min(PairLengths(starts, ends, lengths))

\* A two-step path was returned although a candidate pair three nodes apart exists.
C7_Witness ==
    /\ last.op = "find_path"
    /\ last.status = "ok"
    /\ last.value[1].relation_to_next # NoRelation
    /\ Len(last.value) = 2
    /\ \E s \in TableIds, t \in TableIds : RefLength(s, t) = 3

\* The index holds exactly two units and the only relation is U1 -implies-> U2.
TwoUnitsOneImplication ==
    /\ Len(table) = 2
    /\ table[1].id # table[2].id
    /\ Len(relations) = 1
    /\ relations[1].type = "implies"
    /\ relations[1].source_id # relations[1].target_id
    /\ Edges = {<<relations[1].source_id, relations[1].target_id>>}

\* C8: with exactly two units and the single relation U1 -implies-> U2, find_path
\* returns exactly 2 steps, the first with a relation of type "implies", the
\* last with none, whatever the rank order of the two units.
C8_TwoUnitImplication ==
    (last.op = "find_path" /\ TwoUnitsOneImplication)
    => /\ last.status = "ok"
       /\ Len(last.value) = 2
       /\ last.value[1].relation_to_next # NoRelation
       /\ last.value[1].relation_to_next.type = "implies"
       /\ last.value[2].relation_to_next = NoRelation

\* The path was walked from the relation's target to its source.
C8_Witness ==
    /\ last.op = "find_path"
    /\ TwoUnitsOneImplication
    /\ last.status = "ok"
    /\ last.value[1].unit.id = relations[1].target_id

\* C9: every unit among the top-10 results with similarity >= 0.5 that is the
\* source or target of a stored "refutes" or "contradicts" relation appears in
\* get_conflicts' result with a stored relation of one of those types touching it.
C9_ExplicitConflictsReported ==
    (last.op = "get_conflicts" /\ last.status = "ok" /\ Len(table) <= ConflictCandidates)
    => \A i \in DOMAIN table :
          (/\ Similarity(last.args[1], table[i].content) >= 50
           /\ \E r \in Range(relations) :
                 Touches(r, table[i].id) /\ r.type \in {"refutes", "contradicts"})
          => \E c \in Range(last.value) :
                /\ c.conflicting_unit = UnitOfRow(table[i])
                /\ c.relation \in Range(relations)
                /\ c.relation.type \in {"refutes", "contradicts"}
                /\ Touches(c.relation, table[i].id)

\* A unit at similarity exactly 0.5 is reported for a "refutes" relation of which
\* it is the target.
C9_Witness ==
    /\ last.op = "get_conflicts"
    /\ last.status = "ok"
    /\ \E c \in Range(last.value) :
          /\ c.relation # NoRelation
          /\ c.relation.type = "refutes"
          /\ c.relation.target_id = c.conflicting_unit.id
          /\ c.relation.source_id # c.conflicting_unit.id
          /\ Similarity(last.args[1], c.conflicting_unit.content) = 50

\* C10: get_conflicts while the index holds no unit returns an empty sequence
\* and raises nothing.
C10_NoUnitsNoConflicts ==
    (last.op = "get_conflicts" /\ table = <<>>)
    => /\ last.status = "ok"
       /\ last.value = <<>>

\* get_conflicts ran on an index emptied by delete_unit.
C10_Witness ==
    /\ last.op = "get_conflicts"
    /\ table = <<>>
    /\ next_uuid > 0

\* ---- relation store claims
\* How many records of rels equal r, and how many touch unit_id.
Copies(rels, r) == Cardinality({i \in DOMAIN rels : rels[i] = r})
Touching(rels, unit_id) == Cardinality({i \in DOMAIN rels : Touches(rels[i], unit_id)})

\* C11: a connect_concepts call that succeeds with the arguments of a relation
\* already stored adds one more record of it (in memory and on disk), the
\* connections of both endpoints grow by that record, and a delete_unit that
\* follows reports every copy in its count.
C11_RepeatedConnectStoresTwice ==
    [][/\ (/\ last'.op = "connect_concepts"
           /\ last'.status = "ok"
           /\ last'.value \in Range(relations))
          => /\ Copies(relations', last'.value) = Copies(relations, last'.value) + 1
             /\ Copies(relations_file', last'.value) = Copies(relations', last'.value)
             /\ Touching(relations', last'.value.source_id)
                  = Touching(relations, last'.value.source_id) + 1
             /\ Touching(relations', last'.value.target_id)
                  = Touching(relations, last'.value.target_id) + 1
       /\ (/\ last'.op = "delete_unit"
           /\ last'.status = "ok"
           /\ \E r \in Range(relations) : Touches(r, last'.args[1]) /\ Copies(relations, r) = 2)
          => /\ last'.value.deleted_relations_count >= 2
             /\ last'.value.connections_removed >= 2]_vars

\* The store holds two records of one relation between two different units, and
\* get_unit_connections counts both for each endpoint.
C11_Witness ==
    /\ last.op = "connect_concepts"
    /\ last.status = "ok"
    /\ last.value.source_id # last.value.target_id
    /\ Copies(relations, last.value) = 2
    /\ Len(get_unit_connections(last.value.source_id)) = 2
    /\ Len(get_unit_connections(last.value.target_id)) = 2

\* C13: every edge (s, t) of the in-memory graph has at least one relation with
\* source s and target t in the relation store, in every state reached by
\* add_proposition, connect_concepts, delete_unit and the restart, also when
\* writes of relations.json fail.
StoredFor(rels, s, t) ==
    \E i \in DOMAIN rels : rels[i].source_id = s /\ rels[i].target_id = t

C13_EdgeHasStoredRelation ==
    \A e \in Edges : StoredFor(relations, e[1], e[2])

C13_Witness ==
    /\ last.op = "delete_unit" /\ last.status = "ok"
    /\ last.value.deleted_relations_count > 0
    /\ Edges # {}

\* C14: in the state a restart leaves, the edge set of the graph is exactly the
\* set of (source_id, target_id) pairs of the relations in relations.json,
\* whatever graph and relation list the process before the restart had.
PersistedPairs == {<<relations_file[i].source_id, relations_file[i].target_id>> :
                      i \in DOMAIN relations_file}

C14_RestartRebuildsFromDisk ==
    [][last'.op = "restart" => Edges' = PersistedPairs']_vars

\* A restart after a delete_unit whose write failed: the file still holds a
\* relation of the deleted unit, and the rebuilt graph has its edge.
C14_Witness ==
    /\ last.op = "restart"
    /\ \E e \in Edges : e[1] \notin TableIds \/ e[2] \notin TableIds
    /\ Edges = PersistedPairs

\* C15: after a connect_concepts whose graph write succeeded and whose write of
\* the relation store failed, the graph holds the edge and the relation store,
\* as get_relations_for_unit reads it in the same process, holds no relation
\* for it.
C15_FailedStoreWriteLeavesNoRelation ==
    (last.op = "connect_concepts" /\ last.status = "raised" /\ last.error = FaultError("store"))
        => /\ <<last.args[1], last.args[2]>> \in Edges
           /\ ~StoredFor(get_relations_for_unit(last.args[1]), last.args[1], last.args[2])

\* C19: delete_unit(id) on an id that get_unit reports absent (never ingested,
\* or deleted before) raises the unit-not-found error naming the id and leaves
\* the index, the graph and the relation store unchanged.
C19_DeleteAbsentFails ==
    [][(last'.op = "delete_unit" /\ last'.args[1] \notin TableIds)
          => /\ last'.status = "raised"
             /\ last'.error = "ValueError"
             /\ last'.message = <<"Unit not found", last'.args[1]>>
             /\ UNCHANGED <<table, graph_nodes, graph_edges, relations, relations_file>>]_vars

\* The second delete_unit of an id, with a unit and a relation still stored.
C19_Witness ==
    /\ last.op = "delete_unit" /\ last.status = "raised"
    /\ \E i \in 1..next_uuid : UuidPool[i] = last.args[1]
    /\ last.args[1] \notin TableIds
    /\ table # <<>> /\ relations # <<>> /\ Edges # {}

\* C20: a successful delete_unit(id) reports as deleted_relations_count the
\* number of stored relations with id as source or target before the call
\* (a relation from id to id once, equal records each), connections_removed is
\* the same number, and content and source are those get_unit gives for a row
\* with that id.
C20_DeleteReport ==
    [][(last'.op = "delete_unit" /\ last'.status = "ok")
          => /\ last'.value.deleted_relations_count = Touching(relations, last'.args[1])
             /\ last'.value.connections_removed = last'.value.deleted_relations_count
             /\ \E i \in DOMAIN table :
                    /\ table[i].id = last'.args[1]
                    /\ UnitOfRow(table[i]).content = last'.value.deleted_content
                    /\ UnitOfRow(table[i]).source_doi = last'.value.deleted_source]_vars

\* A unit with a source, a relation to itself and a relation to another unit.
C20_Witness ==
    /\ last.op = "delete_unit" /\ last.status = "ok"
    /\ last.value.deleted_relations_count = 2
    /\ last.value.deleted_source = "doi"
    /\ table # <<>>

\* C12: whatever a tool's collaborators do, the caller gets a result with a
\* status (success, error, or the confirmation request of delete_unit), never
\* an exception.
C12_NoFaultEscapes ==
    result.tool # "none"
        => /\ result.outcome = "returned"
           /\ result.value.status \in {"success", "error", "confirmation_required"}

\* A step of the tool named: the restart keeps the result of the call before it.
ToolStep(tool) == last'.op # "restart" /\ result'.tool = tool

\* C16: an ingest_hypothesis call carrying a key K that returns success returns
\* the result of the one ingestion made under K, which names the unit that
\* ingestion created: when K is known the call adds no unit and returns the
\* result stored for K, otherwise it adds exactly one unit; this also holds
\* after a restart.
C16_IdempotentIngestion ==
    [][(/\ ToolStep("ingest_hypothesis")
        /\ result'.args[4] \notin {None, ""}
        /\ result'.outcome = "returned"
        /\ result'.value.status = "success")
          => /\ "unit_id" \in DOMAIN result'.value
             /\ \E i \in 1..next_uuid' : UuidPool[i] = result'.value.unit_id
             /\ IF result'.args[4] \in DOMAIN idempotency_cache
                THEN table' = table /\ result'.value = idempotency_cache[result'.args[4]]
                ELSE Len(table') = Len(table) + 1]_vars

\* C17: the delete_unit tool with confirm=False changes nothing in the index,
\* the graph, the relation store or the idempotency cache; when it returns, it
\* asks for confirmation with the number of the unit's connections if the unit
\* exists and gives an error if not; with confirm=True it deletes.
C17_UnconfirmedDeleteChangesNothing ==
    [][ToolStep("delete_unit")
          => /\ result'.args[2] = FALSE
                  => /\ UNCHANGED <<table, graph_nodes, graph_edges, relations, relations_file,
                                    idempotency_cache, idempotency_file>>
                     /\ result'.outcome = "returned"
                          => IF result'.args[1] \in TableIds
                             THEN /\ result'.value.status = "confirmation_required"
                                  /\ result'.value.connections_to_delete
                                        = Touching(relations, result'.args[1])
                             ELSE /\ result'.value.status = "error"
                                  /\ result'.value.message
                                        = <<"Unit not found", result'.args[1]>>
             /\ (result'.args[2] = TRUE /\ result'.args[1] \in TableIds
                    /\ result'.outcome = "returned")
                  => /\ result'.value.status = "success"
                     /\ \A i \in DOMAIN table' : table'[i].id # result'.args[1]]_vars

C17_Witness ==
    /\ result.tool = "delete_unit" /\ result.args[2] = FALSE
    /\ last.op = "none"
    /\ result.outcome = "returned"
    /\ result.value.status = "confirmation_required"
    /\ result.value.connections_to_delete = 1
    /\ result.args[1] \in TableIds
    /\ DOMAIN idempotency_cache # {}

\* C18: connect_propositions with a relation value outside the five types
\* returns an error result, whatever the ids and the key, and adds no edge, no
\* relation and no idempotency entry; every stored relation has one of the
\* five types.
StoredTypesValid ==
    /\ \A i \in DOMAIN relations : relations[i].type \in RelationTypes
    /\ \A i \in DOMAIN relations_file : relations_file[i].type \in RelationTypes
    /\ \A e \in Edges : graph_edges[e].type \in RelationTypes

C18_InvalidRelationRejected ==
    /\ []StoredTypesValid
    /\ [][(ToolStep("connect_propositions") /\ result'.args[3] \notin RelationTypes)
              => /\ result'.outcome = "returned"
                 /\ result'.value.status = "error"
                 /\ UNCHANGED <<table, graph_nodes, graph_edges, relations, relations_file,
                                idempotency_cache, idempotency_file>>]_vars

\* An invalid value with two stored units and a key that is already cached.
C18_Witness ==
    /\ result.tool = "connect_propositions" /\ last.op = "none"
    /\ result.args[3] \notin RelationTypes
    /\ {result.args[1], result.args[2]} \subseteq TableIds
    /\ result.args[5] \in DOMAIN idempotency_cache
    /\ result.value.status = "error"

\* C21: no two rows of the units table share an id, also after add_proposition
\* with a caller-supplied id that a stored unit already has.
C21_UnitIdsUnique ==
    \A i \in DOMAIN table, j \in DOMAIN table : i # j => table[i].id # table[j].id

\* C22: connect_concepts writes the relation store before the graph, so a call
\* whose store write failed leaves the graph as it was, without the new edge.
C22_StoreWrittenBeforeGraph ==
    [][(/\ last'.op = "connect_concepts"
        /\ last'.status = "raised"
        /\ last'.error = FaultError("store"))
          => /\ graph_edges' = graph_edges
             /\ <<last'.args[1], last'.args[2]>> \notin Edges']_vars

\* ---- lineage claims
\* The pairs of distinct candidates, in the order find_path tries them, with the
\* node count of their shortest undirected path (0: not connected).
TriedLengths(starts, ends) ==
    LET n == Len(ends)
    IN [k \in 1..(Len(starts) * n) |->
          LET s == starts[((k - 1) \div n) + 1]
              t == ends[((k - 1) % n) + 1]
          IN [start |-> s, end |-> t, length |-> IF s = t THEN 0 ELSE RefLength(s, t)]]

\* The first pair, in that order, whose path has the least node count.
FirstLeast(tried) ==
    {k \in DOMAIN tried :
        /\ tried[k].length > 0
        /\ \A j \in DOMAIN tried :
              tried[j].length > 0 =>
                 /\ j < k => tried[j].length > tried[k].length
                 /\ j > k => tried[j].length >= tried[k].length}

\* C23: when several candidate pairs have shortest paths of the same node
\* count, find_path returns the path of the pair tried first, start candidates
\* in rank order and for each the end candidates in rank order; a later pair
\* wins only with a strictly shorter path.
C23_FirstPairWinsTies ==
    (/\ last.op = "find_path"
     /\ last.status = "ok"
     /\ last.value[1].relation_to_next # NoRelation)
    => \E starts \in CandidateLists(last.args[1]), ends \in CandidateLists(last.args[2]) :
          LET tried == TriedLengths(starts, ends)
          IN \E k \in FirstLeast(tried) :
                /\ last.value[1].unit.id = tried[k].start
                /\ last.value[Len(last.value)].unit.id = tried[k].end
                /\ Len(last.value) = tried[k].length

\* Two pairs with different ends tie at the least length, for every candidate
\* order the search may give.
C23_Witness ==
    /\ last.op = "find_path"
    /\ last.status = "ok"
    /\ last.value[1].relation_to_next # NoRelation
    /\ \A starts \in CandidateLists(last.args[1]), ends \in CandidateLists(last.args[2]) :
          LET tried == TriedLengths(starts, ends)
          IN \E k \in FirstLeast(tried) : \E j \in DOMAIN tried :
                /\ j > k
                /\ tried[j].length = tried[k].length
                /\ {tried[j].start, tried[j].end} # {tried[k].start, tried[k].end}

\* C24: every relation in a step of a find_path result has the source_id and
\* target_id of an edge of the directed graph, also when the path walks the
\* edge from its target to its source.
C24_StepRelationIsStoredEdge ==
    (last.op = "find_path" /\ last.status = "ok")
    => \A i \in DOMAIN last.value :
          last.value[i].relation_to_next # NoRelation
             => <<last.value[i].relation_to_next.source_id,
                  last.value[i].relation_to_next.target_id>> \in Edges

\* A step walked against its edge, the graph holding no edge the other way.
C24_Witness ==
    /\ last.op = "find_path" /\ last.status = "ok"
    /\ \E i \in 1..(Len(last.value) - 1) :
          /\ last.value[i].relation_to_next # NoRelation
          /\ last.value[i].relation_to_next.target_id = last.value[i].unit.id
          /\ last.value[i].relation_to_next.source_id = last.value[i + 1].unit.id
          /\ <<last.value[i].unit.id, last.value[i + 1].unit.id>> \notin Edges

\* C25: in every step of a find_path result but the last, the relation runs as
\* the path is walked: its source_id is the step's unit, its target_id the
\* next step's unit.
C25_StepRelationAsTraversed ==
    (last.op = "find_path" /\ last.status = "ok")
    => \A i \in 1..(Len(last.value) - 1) :
          last.value[i].relation_to_next # NoRelation
             => /\ last.value[i].relation_to_next.source_id = last.value[i].unit.id
                /\ last.value[i].relation_to_next.target_id = last.value[i + 1].unit.id

\* C26: in a find_path result that is a path, every step but the last carries
\* a relation between its unit and the next step's unit with the type and
\* reasoning of the graph's edge, the last step carries none, and the steps
\* are all nodes of a shortest path between the first and the last unit.
C26_StepsCarryEdgeData ==
    (/\ last.op = "find_path"
     /\ last.status = "ok"
     /\ last.value[1].relation_to_next # NoRelation)
    => /\ \A i \in 1..(Len(last.value) - 1) :
             LET rel == last.value[i].relation_to_next
             IN /\ rel # NoRelation
                /\ {rel.source_id, rel.target_id}
                     = {last.value[i].unit.id, last.value[i + 1].unit.id}
                /\ <<rel.source_id, rel.target_id>> \in Edges
                /\ rel.type = graph_edges[<<rel.source_id, rel.target_id>>].type
                /\ rel.reasoning = graph_edges[<<rel.source_id, rel.target_id>>].reasoning
       /\ last.value[Len(last.value)].relation_to_next = NoRelation
       /\ Len(last.value)
            = RefLength(last.value[1].unit.id, last.value[Len(last.value)].unit.id)

\* A path of three steps over two relations of different types.
C26_Witness ==
    /\ last.op = "find_path" /\ last.status = "ok"
    /\ Len(last.value) = 3
    /\ last.value[1].relation_to_next # NoRelation
    /\ last.value[2].relation_to_next # NoRelation
    /\ last.value[1].relation_to_next.type # last.value[2].relation_to_next.type

\* What a set of find_path outcomes says about reachability: for each outcome
\* whether it returned, how many steps, and whether it is the two-step result
\* for units that are not connected.
Reachability(outcomes) ==
    {IF o.status = "ok"
     THEN <<"ok", Len(o.value), o.value[1].relation_to_next = NoRelation>>
     ELSE <<o.error, 0, FALSE>> : o \in outcomes}

\* C27: for any two concept texts, find_path(a, b) and find_path(b, a) return
\* the same number of steps, and one is the result for unconnected units
\* exactly when the other is; each text's search gives the same candidates in
\* both calls.
C27_ArgumentOrderIrrelevant ==
    LET lengths == {<<s, t, path_length(s, t)>> : s \in Nodes, t \in Nodes}
        picks == Picks
    IN \A a \in Texts, b \in Texts :
          \A ra \in semantic_search(a, PathCandidates),
             rb \in semantic_search(b, PathCandidates) :
              Reachability(find_path_from(a, b, ra, rb, lengths, picks))
                = Reachability(find_path_from(b, a, rb, ra, lengths, picks))

\* A call with two different texts whose path is walked against its only edge.
C27_Witness ==
    /\ last.op = "find_path" /\ last.status = "ok"
    /\ last.args[1] # last.args[2]
    /\ last.value[1].relation_to_next # NoRelation
    /\ last.value[1].relation_to_next.target_id = last.value[1].unit.id
    /\ Cardinality(Edges) = 1

\* C28: find_path raises the no-match error exactly when one of its two
\* searches gives no result, naming the start concept when the start search is
\* empty and the end concept when only the end search is empty, and then
\* nothing else happens; a call whose searches both give results raises no
\* such error.
NoMatch(start_concept, end_concept, named) ==
    {Raised("find_path", <<start_concept, end_concept>>, "ValueError",
            <<"No units found matching", named>>)}

C28_NoMatchNamesTheSide ==
    /\ last.op = "find_path"
          => IF table = <<>>
             THEN {last} = NoMatch(last.args[1], last.args[2], last.args[1])
             ELSE last.status = "ok" \/ last.error # "ValueError"
    /\ \A a \in Texts, b \in Texts :
          /\ find_path_from(a, b, <<>>, <<>>, {}, Picks) = NoMatch(a, b, a)
          /\ \A r \in semantic_search(b, PathCandidates) :
                r # <<>> => find_path_from(a, b, <<>>, r, {}, Picks) = NoMatch(a, b, a)
          /\ \A r \in semantic_search(a, PathCandidates) :
                r # <<>> => find_path_from(a, b, r, <<>>, {}, Picks) = NoMatch(a, b, b)

\* A call on an index without units, with two different texts.
C28_Witness ==
    /\ last.op = "find_path"
    /\ last.status = "raised" /\ last.error = "ValueError"
    /\ last.args[1] # last.args[2]
    /\ last.message = <<"No units found matching", last.args[1]>>
    /\ table = <<>>

\* ---- conflict claims
\* The unit of row i is reported by the last get_conflicts call; with no relation.
Reported(i) == \E c \in Range(last.value) : c.conflicting_unit = UnitOfRow(table[i])
Flagged(i) ==
    \E c \in Range(last.value) :
        c.conflicting_unit = UnitOfRow(table[i]) /\ c.relation = NoRelation
ExplicitConflict(i) ==
    \E r \in Range(relations) :
        Touches(r, table[i].id) /\ r.type \in {"refutes", "contradicts"}

\* C29: a unit whose similarity to the claim is below 0.5 is never in
\* get_conflicts' result, also when a refutes or contradicts relation touches
\* it; a unit at exactly 0.5 is kept, so one with such a relation is reported.
C29_RelevanceFloor ==
    (last.op = "get_conflicts" /\ last.status = "ok" /\ Len(table) <= 10)
    => \A i \in DOMAIN table :
          /\ Similarity(last.args[1], table[i].content) < 50 => ~Reported(i)
          /\ (Similarity(last.args[1], table[i].content) = 50 /\ ExplicitConflict(i))
                => Reported(i)

\* One relation refutes between a unit at 0.5 and a unit at 0.4: only the first
\* is reported.
C29_Witness ==
    /\ last.op = "get_conflicts" /\ last.status = "ok"
    /\ \E i \in DOMAIN table, j \in DOMAIN table :
          /\ Similarity(last.args[1], table[i].content) = 40
          /\ ExplicitConflict(i) /\ ~Reported(i)
          /\ Similarity(last.args[1], table[j].content) = 50
          /\ ExplicitConflict(j) /\ Reported(j)

\* C30: get_conflicts reports a unit with no relation exactly when no relation
\* touching it has type refutes or contradicts and its similarity is strictly
\* above 0.85; at exactly 0.85, or with such a relation, it never does.
C30_HeuristicFlag ==
    (last.op = "get_conflicts" /\ last.status = "ok" /\ Len(table) <= 10)
    => \A i \in DOMAIN table :
          Flagged(i) <=> (/\ ~ExplicitConflict(i)
                          /\ Similarity(last.args[1], table[i].content) > 85)

\* A unit equal to the claim is flagged, one at exactly 0.85 is not, and a
\* relation of another type touches both.
C30_Witness ==
    /\ last.op = "get_conflicts" /\ last.status = "ok"
    /\ relations # <<>>
    /\ \E i \in DOMAIN table, j \in DOMAIN table :
          /\ Similarity(last.args[1], table[i].content) = 100
          /\ Touching(relations, table[i].id) > 0 /\ Flagged(i)
          /\ Similarity(last.args[1], table[j].content) = 85
          /\ ~ExplicitConflict(j) /\ ~Reported(j)

\* The unit ids of a get_conflicts result, and where a sequence of ids occurs
\* in a candidate list: strictly increasing positions holding the same ids.
ConflictIds(value) == [i \in DOMAIN value |-> value[i].conflicting_unit.id]
Embeddings(ids, candidates) ==
    {f \in [DOMAIN ids -> DOMAIN candidates] :
        /\ \A i \in DOMAIN ids : candidates[f[i]].unit.id = ids[i]
        /\ \A i \in DOMAIN ids, j \in DOMAIN ids : i < j => f[i] < f[j]}

\* C31: get_conflicts returns at most one ConflictResult per candidate unit, so
\* at most 10, in the rank order of the candidates; the relation reported for a
\* unit that touches several refutes/contradicts relations is the first of
\* them in the creation order of the relation store.
C31_OneConflictPerUnit ==
    (last.op = "get_conflicts" /\ last.status = "ok")
    => /\ Len(last.value) <= ConflictCandidates
       /\ \E similar \in semantic_search(last.args[1], ConflictCandidates) :
             Embeddings(ConflictIds(last.value), similar) # {}
       /\ \A c \in Range(last.value) :
             c.relation # NoRelation
                => \E k \in DOMAIN relations :
                      /\ relations[k] = c.relation
                      /\ Touches(relations[k], c.conflicting_unit.id)
                      /\ \A j \in 1..(k - 1) :
                            Touches(relations[j], c.conflicting_unit.id)
                               => relations[j].type \notin {"refutes", "contradicts"}

\* Two units of different rank are reported, each once; the first touches an
\* implies, a refutes and a contradicts relation, stored in that order, and is
\* reported with the refutes one.
C31_Witness ==
    /\ last.op = "get_conflicts" /\ last.status = "ok"
    /\ Len(last.value) = 2
    /\ last.value[1].conflicting_unit.id # last.value[2].conflicting_unit.id
    /\ Similarity(last.args[1], last.value[1].conflicting_unit.content)
          > Similarity(last.args[1], last.value[2].conflicting_unit.content)
    /\ Len(relations) = 3
    /\ \A k \in 1..3 : Touches(relations[k], last.value[1].conflicting_unit.id)
    /\ last.value[1].relation = relations[2]
    /\ relations[3] # relations[2]

\* C32: in every state reached by add_proposition, connect_concepts and
\* delete_unit calls that run one at a time and whose writes succeed, the
\* source_id and the target_id of every relation in the relation store resolve
\* via get_unit.
C32_RelationEndpointsExist ==
    \A r \in Range(relations) \cup Range(relations_file) :
        \A pick \in Picks :
            /\ get_unit(pick, r.source_id) # NoUnit
            /\ get_unit(pick, r.target_id) # NoUnit

\* A unit with a relation has been deleted, and the store still holds a
\* relation between units that remain.
C32_Witness ==
    /\ last.op = "delete_unit" /\ last.status = "ok"
    /\ last.value.deleted_relations_count > 0
    /\ relations # <<>>

\* ---- claims on concurrent calls
\* No engine call is in progress.
Quiescent == pending = NoPending

\* C33: concurrent connect_concepts and delete_unit calls touching one unit id
\* are serialized, so once they have all returned the store holds no relation
\* and the graph no edge with an endpoint whose unit has been deleted, and the
\* relation of every edge the graph holds is in the store (none was lost).
C33_ConcurrentCallsSerialized ==
    Quiescent
    => /\ \A r \in Range(relations) \cup Range(relations_file) :
             r.source_id \in TableIds /\ r.target_id \in TableIds
       /\ \A e \in Edges : e[1] \in TableIds /\ e[2] \in TableIds
       /\ \A e \in Edges : StoredFor(relations, e[1], e[2])

\* The ids of the steps of a result form a path of the graph g.
PathIn(steps, g) ==
    /\ \A i \in DOMAIN steps : steps[i].unit.id \in g.nodes
    /\ \A i \in 1..(Len(steps) - 1) :
          \/ <<steps[i].unit.id, steps[i + 1].unit.id>> \in g.edges
          \/ <<steps[i + 1].unit.id, steps[i].unit.id>> \in g.edges

\* C34: a find_path call running beside connect_concepts or delete_unit calls
\* never fails because of them: it returns steps or the no-match ValueError,
\* and a path it returns is a path of one of the graphs that existed during
\* the call.
C34_FindPathSnapshot ==
    (last.op = "find_path" /\ "during" \in DOMAIN last)
    => /\ last.status = "ok" \/ last.outcome.error = "ValueError"
       /\ (last.status = "ok" /\ ~last.disconnected)
             => /\ Len(last.outcome.value) >= 2
                /\ \E g \in last.during : PathIn(last.outcome.value, g)

\* ---- claims on the idempotency cache
\* C35: every success result ingest_hypothesis returns, fresh or from the
\* idempotency cache, names a unit_id for which get_unit returns a unit when
\* the result is returned, after any ingest_hypothesis and delete_unit calls.
C35_IngestResultNamesLiveUnit ==
    [][(/\ ToolStep("ingest_hypothesis")
        /\ result'.outcome = "returned"
        /\ result'.value.status = "success")
          => /\ "unit_id" \in DOMAIN result'.value
             /\ result'.value.unit_id \in {table'[i].id : i \in DOMAIN table'}]_vars

\* What is stored under a key: the result of an ingestion, of a connection.
StoredByIngest(key) ==
    key \in DOMAIN idempotency_cache /\ "unit_id" \in DOMAIN idempotency_cache[key]
StoredByConnect(key) ==
    key \in DOMAIN idempotency_cache /\ "relation" \in DOMAIN idempotency_cache[key]

\* C36: the idempotency keys of the two writing tools do not interfere: a
\* connect_propositions call with a valid type and two existing ids, under a key
\* used so far by ingest_hypothesis only, creates the relation and returns a
\* result describing it; an ingest_hypothesis call under a key used so far by
\* connect_propositions only creates a unit and returns it.
C36_KeysDoNotInterfere ==
    [][/\ (/\ ToolStep("connect_propositions")
           /\ result'.outcome = "returned"
           /\ result'.args[3] \in RelationTypes
           /\ {result'.args[1], result'.args[2]} \subseteq TableIds
           /\ StoredByIngest(result'.args[5]))
          => /\ relations' = Append(relations,
                                    [source_id |-> result'.args[1],
                                     target_id |-> result'.args[2],
                                     type |-> result'.args[3],
                                     reasoning |-> result'.args[4]])
             /\ "relation" \in DOMAIN result'.value
             /\ result'.value.relation = relations'[Len(relations')]
       /\ (/\ ToolStep("ingest_hypothesis")
           /\ result'.outcome = "returned"
           /\ StoredByConnect(result'.args[4]))
          => /\ Len(table') = Len(table) + 1
             /\ "unit_id" \in DOMAIN result'.value
             /\ result'.value.unit_id = table'[Len(table')].id]_vars

\* A step that is a call of connect_propositions: it ends in connect_concepts
\* or returns before it.
ConnectPropositionsStep ==
    result'.tool = "connect_propositions" /\ last'.op \in {"none", "connect_concepts"}

\* C37: a connect_propositions call that returns an error (unit not found,
\* invalid relation type) stores nothing under its idempotency key; so the next
\* call with the same key, made with a valid type when both units exist,
\* creates the relation and returns success, not the error.
C37_ErrorsAreNotCached ==
    [][/\ (/\ ConnectPropositionsStep
           /\ result'.outcome = "returned"
           /\ result'.value.status = "error")
          => UNCHANGED <<idempotency_cache, idempotency_file, relations, relations_file,
                         graph_nodes, graph_edges>>
       /\ (/\ ConnectPropositionsStep
           /\ result.tool = "connect_propositions"
           /\ result.outcome = "returned"
           /\ result.value.status = "error"
           /\ result.args[5] \notin DOMAIN idempotency_cache \cup {None, ""}
           /\ result'.args[5] = result.args[5]
           /\ result'.args[3] \in RelationTypes
           /\ {result'.args[1], result'.args[2]} \subseteq TableIds)
          => /\ result'.outcome = "returned"
             /\ result'.value.status = "success"
             /\ result'.value.relation = [source_id |-> result'.args[1],
                                          target_id |-> result'.args[2],
                                          type |-> result'.args[3],
                                          reasoning |-> result'.args[4]]
             /\ relations' = Append(relations, result'.value.relation)
             /\ <<result'.args[1], result'.args[2]>> \in Edges']_vars

\* A call under a key has failed for a target that did not exist; the target
\* has been ingested since, nothing is stored under the key, and the call can
\* be repeated.
C37_Witness ==
    /\ result.tool = "connect_propositions"
    /\ result.outcome = "returned"
    /\ result.value.status = "error"
    /\ result.value.message = <<"Target unit not found", result.args[2]>>
    /\ result.args[5] = "k1"
    /\ {result.args[1], result.args[2]} \subseteq TableIds
    /\ "k1" \notin DOMAIN idempotency_cache
    /\ Len(relations) < RetryRels

\* ---- frame claims
\* C38: when the embedding provider fails during add_proposition, the failure
\* reaches the caller of ingest_hypothesis as it is, after one attempt, and the
\* vector index, the graph, the relation store and the idempotency cache are
\* unchanged: no unit, no node, no result stored under the key of the call.
C38_EmbeddingFailureChangesNothing ==
    [][(/\ result'.tool = "ingest_hypothesis"
        /\ last'.op = "add_proposition"
        /\ last'.status = "raised")
          => /\ last' = Raised("add_proposition",
                               <<result'.args[1],
                                 IF result'.args[2] = "" THEN None ELSE result'.args[2],
                                 result'.args[3], None>>,
                               FaultError("embedding"), <<>>)
             /\ result' = Escaped("ingest_hypothesis", result'.args, FaultError("embedding"))
             /\ UNCHANGED <<table, graph_nodes, graph_edges, relations, relations_file,
                            idempotency_cache, idempotency_file, next_uuid>>
             /\ result'.args[4] \notin {None, ""}
                   => (result'.args[4] \in DOMAIN idempotency_cache'
                          <=> result'.args[4] \in DOMAIN idempotency_cache)]_vars

\* An ingestion under a key failed at the embedding, beside a stored unit and
\* a relation; nothing is stored under the key.
C38_Witness ==
    /\ result.tool = "ingest_hypothesis"
    /\ result.outcome = "escaped"
    /\ last.op = "add_proposition" /\ last.status = "raised"
    /\ result.args[4] = "k1"
    /\ "k1" \notin DOMAIN idempotency_cache
    /\ table # <<>> /\ relations # <<>>

\* C39: get_unit, semantic_search, find_path, get_conflicts, list_propositions
\* and get_unit_connections are read-only: each leaves the vector index, the
\* relation store, the idempotency cache and the graph's nodes, edges and edge
\* attributes unchanged, whether it succeeds or fails.
C39_QueriesAreReadOnly ==
    [][last'.op \in QueryOps
          => UNCHANGED <<table, graph_nodes, graph_edges, relations, relations_file,
                         idempotency_cache, idempotency_file>>]_vars

\* find_path has failed with NodeNotFound in a restarted process whose index
\* holds a unit the graph has no node for, beside a stored relation.
C39_Witness ==
    /\ last.op = "find_path"
    /\ last.status = "raised"
    /\ last.error = "NodeNotFound"
    /\ relations # <<>>
    /\ TableIds \ Nodes # {}

\* ---- graph and store
\* Type and reasoning of the relation stored last in rels from s to t.
LatestStored(rels, s, t) ==
    LET k == CHOOSE i \in DOMAIN rels :
                 /\ rels[i].source_id = s /\ rels[i].target_id = t
                 /\ \A j \in DOMAIN rels :
                       (rels[j].source_id = s /\ rels[j].target_id = t) => j <= i
    IN [type |-> rels[k].type, reasoning |-> rels[k].reasoning]

\* C40: for every ordered pair (s, t) with a stored relation, the edge s->t of
\* the graph carries the type and reasoning of the relation stored last from s
\* to t, in the running process and after a restart; the relation find_path
\* reports for the edge has that type and reasoning in both.
C40_EdgeCarriesLatestRelation ==
    /\ \A i \in DOMAIN relations :
          LET s == relations[i].source_id
              t == relations[i].target_id
          IN /\ <<s, t>> \in Edges
             /\ graph_edges[<<s, t>>] = LatestStored(relations, s, t)
             /\ StoredFor(relations_file, s, t)
             /\ LatestStored(relations_file, s, t) = LatestStored(relations, s, t)
    /\ (last.op = "find_path" /\ last.status = "ok")
          => \A k \in DOMAIN last.value :
                LET rel == last.value[k].relation_to_next
                IN rel # NoRelation
                      => /\ StoredFor(relations, rel.source_id, rel.target_id)
                         /\ [type |-> rel.type, reasoning |-> rel.reasoning]
                               = LatestStored(relations, rel.source_id, rel.target_id)

\* find_path in a restarted process (a unit of the index has no node) reports
\* the second of two relations of different type stored for one pair.
C40_Witness ==
    /\ last.op = "find_path" /\ last.status = "ok"
    /\ TableIds \ Nodes # {}
    /\ Len(relations) = 2
    /\ relations[1].source_id = relations[2].source_id
    /\ relations[1].target_id = relations[2].target_id
    /\ relations[1].type # relations[2].type
    /\ last.value[1].relation_to_next # NoRelation
    /\ last.value[1].relation_to_next.type = relations[2].type
    /\ last.value[1].relation_to_next.reasoning = relations[2].reasoning
====
